---- MODULE Spec2Model ----
(***************************************************************************)
(* Model of the Link Injection Redirect plugin (src/unnamed/part_001, the  *)
(* current main.ts).  Strings are sequences of one-character strings, so   *)
(* that scanning, splitting, trimming and case folding are computed the    *)
(* way the TypeScript computes them.  A Record<string, T> is a sequence of *)
(* entries in JavaScript property order (insertion order for the           *)
(* non-numeric keys used here), because Object.keys(...).find(...) takes   *)
(* the first match in that order.                                          *)
(***************************************************************************)
EXTENDS Integers, Sequences, FiniteSets, TLC

VARIABLES
    deviceProfiles,           \* settings.deviceProfiles
    defaultLinkReplacements,  \* settings.defaultLinkReplacements
    openInPreferences,        \* settings.openInPreferences
    invalidCharReplacement,   \* settings.invalidCharReplacement
    hasPropertyError,         \* MyPlugin.hasPropertyError
    event,                    \* the last top-level event handled and its inputs
    hostCalls,                \* calls to the host's original openLinkText for that event
    modal,                    \* the open LinkChoiceModal, or NoModal
    menu,                     \* items added to the url-menu of that event
    opened,                   \* URLs handed to window.open / shell.openExternal
    defaultValue,             \* the const defaultValue of each row renderReplacements drew
    workspaceOpenLinkText     \* app.workspace.openLinkText: "patched" or "original"

vars == <<deviceProfiles, defaultLinkReplacements, openInPreferences,
          invalidCharReplacement, hasPropertyError, event, hostCalls, modal,
          menu, opened, defaultValue, workspaceOpenLinkText>>

settingsVars == <<deviceProfiles, defaultLinkReplacements, openInPreferences,
                  invalidCharReplacement>>

-----------------------------------------------------------------------------
(* JavaScript string primitives                                            *)

\* String.prototype.toLowerCase on the letters of the model's alphabet.
LowerChar(c) ==
    CASE c = "A" -> "a"
      [] c = "B" -> "b"
      [] c = "C" -> "c"
      [] c = "D" -> "d"
      [] c = "E" -> "e"
      [] c = "L" -> "l"
      [] c = "P" -> "p"
      [] OTHER -> c

toLowerCase(s) == [i \in 1..Len(s) |-> LowerChar(s[i])]

\* s.substring(from) with a 0-based index, as in JavaScript.
substringFrom(s, from) == SubSeq(s, from + 1, Len(s))

\* True iff sub occurs in s at the 1-based position i.
OccursAt(s, sub, i) ==
    /\ i >= 1
    /\ i + Len(sub) - 1 <= Len(s)
    /\ SubSeq(s, i, i + Len(sub) - 1) = sub

startsWith(s, prefix) == OccursAt(s, prefix, 1)

includes(s, sub) == \E i \in 1..(Len(s) + 1) : OccursAt(s, sub, i)

\* String.prototype.trim; the only white space of the alphabet is " ".
RECURSIVE trimStart(_)
trimStart(s) ==
    IF s # <<>> /\ Head(s) = " " THEN trimStart(Tail(s)) ELSE s

RECURSIVE trimEnd(_)
trimEnd(s) ==
    IF s # <<>> /\ s[Len(s)] = " " THEN trimEnd(SubSeq(s, 1, Len(s) - 1)) ELSE s

trim(s) == trimEnd(trimStart(s))

\* s.split(sep) for a non-empty separator: the pieces between the
\* non-overlapping occurrences of sep, found left to right.
RECURSIVE splitFrom(_, _, _, _)
splitFrom(s, sep, i, start) ==
    IF i > Len(s) - Len(sep) + 1
    THEN <<SubSeq(s, start, Len(s))>>
    ELSE IF OccursAt(s, sep, i)
         THEN <<SubSeq(s, start, i - 1)>> \o splitFrom(s, sep, i + Len(sep), i + Len(sep))
         ELSE splitFrom(s, sep, i + 1, start)

split(s, sep) == splitFrom(s, sep, 1, 1)

\* Array.prototype.join.
RECURSIVE join(_, _)
join(parts, sep) ==
    IF parts = <<>> THEN <<>>
    ELSE IF Len(parts) = 1 THEN parts[1]
    ELSE parts[1] \o sep \o join(Tail(parts), sep)

\* The replacement patterns String.prototype.replace expands in a replacement
\* STRING: "$$" inserts "$" and "$&" inserts the matched text.  The plugin's
\* patterns have no capture groups, so "$1".. stay literal.
RECURSIVE expandReplacement(_, _)
expandReplacement(r, matched) ==
    IF r = <<>> THEN <<>>
    ELSE IF Len(r) >= 2 /\ r[1] = "$" /\ r[2] = "$"
         THEN <<"$">> \o expandReplacement(SubSeq(r, 3, Len(r)), matched)
    ELSE IF Len(r) >= 2 /\ r[1] = "$" /\ r[2] = "&"
         THEN matched \o expandReplacement(SubSeq(r, 3, Len(r)), matched)
    ELSE <<Head(r)>> \o expandReplacement(Tail(r), matched)

\* s.replace(new RegExp(escape(pat), 'g'), r): every non-overlapping
\* occurrence of the literal text pat, left to right, becomes r.
RECURSIVE replaceAllFrom(_, _, _, _)
replaceAllFrom(s, pat, r, i) ==
    IF i > Len(s) THEN <<>>
    ELSE IF pat # <<>> /\ OccursAt(s, pat, i)
         THEN expandReplacement(r, pat) \o replaceAllFrom(s, pat, r, i + Len(pat))
         ELSE <<s[i]>> \o replaceAllFrom(s, pat, r, i + 1)

replaceAll(s, pat, r) == replaceAllFrom(s, pat, r, 1)

\* value.replace(/[\/\\:]/g, repl): every "/", "\" and ":" becomes repl.
RECURSIVE replaceInvalidChars(_, _)
replaceInvalidChars(s, repl) ==
    IF s = <<>> THEN <<>>
    ELSE (IF Head(s) \in {"/", "\\", ":"}
          THEN expandReplacement(repl, <<Head(s)>>)
          ELSE <<Head(s)>>) \o replaceInvalidChars(Tail(s), repl)

\* String(n) for a non-negative integer.
Digit(d) == CASE d = 0 -> "0" [] d = 1 -> "1" [] d = 2 -> "2" [] d = 3 -> "3"
              [] d = 4 -> "4" [] d = 5 -> "5" [] d = 6 -> "6" [] d = 7 -> "7"
              [] d = 8 -> "8" [] OTHER -> "9"

RECURSIVE numberToString(_)
numberToString(n) ==
    IF n < 10 THEN <<Digit(n)>> ELSE numberToString(n \div 10) \o <<Digit(n % 10)>>

\* String(propertyValue): a frontmatter value is a string or a number.
String(value) == IF value.t = "num" THEN numberToString(value.n) ELSE value.s

-----------------------------------------------------------------------------
(* Record<string, T> as a sequence of entries with distinct keys           *)

ObjectKeys(obj) == [i \in 1..Len(obj) |-> obj[i].k]

HasKey(obj, key) == \E i \in 1..Len(obj) : obj[i].k = key

IndexOfKey(obj, key) == CHOOSE i \in 1..Len(obj) : obj[i].k = key

\* obj[key] for a key that is present.
Get(obj, key) == obj[IndexOfKey(obj, key)]

\* obj[key] = entry: in place when the key exists, appended otherwise.
Put(obj, entry) ==
    IF HasKey(obj, entry.k)
    THEN [obj EXCEPT ![IndexOfKey(obj, entry.k)] = entry]
    ELSE Append(obj, entry)

\* delete obj[key]
Delete(obj, key) == SelectSeq(obj, LAMBDA e : e.k # key)

\* Object.keys(obj).find(k => k.toLowerCase() === key.toLowerCase()):
\* the index of the first such entry, 0 when there is none (undefined).
FindKeyIgnoreCase(obj, key) ==
    LET hits == {i \in 1..Len(obj) : toLowerCase(obj[i].k) = toLowerCase(key)}
    IN  IF hits = {} THEN 0 ELSE CHOOSE i \in hits : \A j \in hits : i <= j

\* {...a, ...b}
RECURSIVE Spread(_, _)
Spread(a, b) == IF b = <<>> THEN a ELSE Spread(Put(a, Head(b)), Tail(b))

-----------------------------------------------------------------------------
(* The host application: vault, metadata cache, vault path                 *)

\* The sentinel "@@IGNORE@@" that marks a key as ignored on a device.
IGNORE == <<"@", "@", "I", "G", "N", "O", "R", "E", "@", "@">>

NoFile == [kind |-> "none"]

\* app.vault.getAbstractFileByPath / app.metadataCache.getFileCache: a
\* markdown note with frontmatter, a markdown note without frontmatter, a
\* file that is not markdown; any other path names no file.
Vault ==
    [p \in {"note.md", "bare.md", "img.png"} |->
        CASE p = "note.md" ->
               [kind |-> "TFile", extension |-> "md", hasFrontmatter |-> TRUE,
                frontmatter |->
                  << [k |-> <<"P">>, v |-> [t |-> "str", s |-> <<"u", "/", "v", ":", "w">>]],
                     [k |-> <<"n">>, v |-> [t |-> "num", n |-> 12]],
                     [k |-> <<"b">>, v |-> [t |-> "str", s |-> <<"r", "\\", "s">>]] >>]
          [] p = "bare.md" ->
               [kind |-> "TFile", extension |-> "md", hasFrontmatter |-> FALSE,
                frontmatter |-> <<>>]
          [] OTHER ->
               [kind |-> "TFile", extension |-> "png", hasFrontmatter |-> FALSE,
                frontmatter |-> <<>>]]

getAbstractFileByPath(path) == IF path \in DOMAIN Vault THEN Vault[path] ELSE NoFile

\* sourcePath ? getAbstractFileByPath(sourcePath) : workspace.getActiveFile();
\* "" stands for both undefined and the empty string, active is the path of
\* the workspace's active file ("" when there is none).
ContextFile(sourcePath, active) ==
    IF sourcePath # "" THEN getAbstractFileByPath(sourcePath)
    ELSE getAbstractFileByPath(active)

\* this.app.vault.adapter.basePath of the running vault.
getCurrentVaultPath == "/vault"

-----------------------------------------------------------------------------
(* MyPlugin: configuration resolution                                      *)

\* The index in deviceProfiles of the current profile, 0 when there is none.
CurrentProfileIndex ==
    LET hits == {i \in 1..Len(deviceProfiles) :
                    deviceProfiles[i].vaultPath = getCurrentVaultPath}
    IN  IF hits = {} THEN 0 ELSE CHOOSE i \in hits : \A j \in hits : i <= j

\* The current profile's linkReplacements, {} when there is no profile.
getCurrentProfile ==
    IF CurrentProfileIndex = 0 THEN <<>>
    ELSE deviceProfiles[CurrentProfileIndex].linkReplacements

\* getActiveLinkReplacements with the spread reversed: defaults over the profile.
getActiveLinkReplacementsBroken ==
    SelectSeq(Spread(getCurrentProfile, defaultLinkReplacements),
              LAMBDA e : e.v # IGNORE)

getActiveLinkReplacements ==
    SelectSeq(Spread(defaultLinkReplacements, getCurrentProfile),
              LAMBDA e : e.v # IGNORE)

isKeyIgnored(key) ==
    LET overrides == getCurrentProfile
        actualKey == FindKeyIgnoreCase(overrides, key)
    IN  IF CurrentProfileIndex = 0 THEN FALSE
        ELSE IF actualKey # 0 THEN overrides[actualKey].v = IGNORE ELSE FALSE

getOpenInPreference(key) ==
    LET actualKey == FindKeyIgnoreCase(openInPreferences, key)
    IN  IF actualKey # 0
        THEN [webviewer |-> openInPreferences[actualKey].webviewer,
              external |-> openInPreferences[actualKey].external]
        ELSE [webviewer |-> TRUE, external |-> TRUE]

DUMMY == <<"d", "u", "m", "m", "y", ":", "/", "/">>

\* The prefix removed as often as it leads the url.
RECURSIVE removeDummyPrefixes(_)
removeDummyPrefixes(url) ==
    IF startsWith(url, DUMMY) THEN removeDummyPrefixes(substringFrom(url, Len(DUMMY)))
    ELSE url

removeDummyPrefix(url) ==
    IF startsWith(url, DUMMY) THEN substringFrom(url, Len(DUMMY)) ELSE url

\* The loop with the AND left out: the last key's preference wins.
RECURSIVE mergeOpenInBroken(_, _)
mergeOpenInBroken(keys, acc) ==
    IF keys = <<>> THEN acc
    ELSE LET pref == getOpenInPreference(Head(keys))
         IN  mergeOpenInBroken(Tail(keys),
                 [webviewer |-> pref.webviewer, external |-> pref.external])

\* The loop of getMergedOpenInPreference, acc holding {webviewer, external}.
RECURSIVE mergeOpenIn(_, _)
mergeOpenIn(keys, acc) ==
    IF keys = <<>> THEN acc
    ELSE LET pref == getOpenInPreference(Head(keys))
         IN  mergeOpenIn(Tail(keys),
                 [webviewer |-> acc.webviewer /\ pref.webviewer,
                  external |-> acc.external /\ pref.external])

getMergedOpenInPreference(keys) ==
    mergeOpenIn(keys, [webviewer |-> TRUE, external |-> TRUE])

-----------------------------------------------------------------------------
(* MyPlugin: the pattern /\$\{([^}]+)\}/g                                   *)

\* The position of the first "}" at or after from, 0 when there is none.
FirstClose(text, from) ==
    LET hits == {j \in from..Len(text) : text[j] = "}"}
    IN  IF hits = {} THEN 0 ELSE CHOOSE j \in hits : \A m \in hits : j <= m

\* The end of the match of the pattern that starts at i, 0 when none starts
\* there: "${", then one or more characters other than "}", then "}".
PatternEndAt(text, i) ==
    IF i + 1 <= Len(text) /\ text[i] = "$" /\ text[i + 1] = "{"
    THEN LET j == FirstClose(text, i + 2)
         IN  IF j >= i + 3 THEN j ELSE 0
    ELSE 0

\* Array.from(text.matchAll(pattern)): the matches left to right, each with
\* its text, its group 1 and its 1-based start and end.
RECURSIVE matchAllFrom(_, _)
matchAllFrom(text, i) ==
    IF i > Len(text) THEN <<>>
    ELSE LET j == PatternEndAt(text, i)
         IN  IF j = 0 THEN matchAllFrom(text, i + 1)
             ELSE << [match |-> SubSeq(text, i, j),
                      key |-> SubSeq(text, i + 2, j - 1),
                      from |-> i, to |-> j] >> \o matchAllFrom(text, j + 1)

matchAll(text) == matchAllFrom(text, 1)

extractKeysFromPattern(text) ==
    LET matches == matchAll(text)
        kept == SelectSeq(matches,
                    LAMBDA m : /\ ~startsWith(m.key, <<"L", ":">>)
                               /\ ~includes(m.key, <<",", ",">>))
    IN  [i \in 1..Len(kept) |-> trim(kept[i].key)]

-----------------------------------------------------------------------------
(* MyPlugin.replacePatterns                                                *)

\* The callback keeping a placeholder whose property is missing, without error.
replaceMatchBroken(match, key, file, isInternalLink) ==
    IF startsWith(key, <<"L", ":">>)
    THEN LET propertyKey == substringFrom(key, 2)
             actualKey == FindKeyIgnoreCase(file.frontmatter, propertyKey)
             stringValue == String(file.frontmatter[actualKey].v)
         IN  IF file.kind # "TFile" \/ file.extension # "md"
             THEN [s |-> match, err |-> FALSE]
             ELSE IF ~file.hasFrontmatter
             THEN [s |-> match, err |-> FALSE]
             ELSE IF actualKey = 0
             THEN [s |-> match, err |-> FALSE]
             ELSE IF isInternalLink
             THEN [s |-> replaceInvalidChars(stringValue, invalidCharReplacement),
                   err |-> FALSE]
             ELSE [s |-> stringValue, err |-> FALSE]
    ELSE LET activeReplacements == getActiveLinkReplacements
             dictKey == FindKeyIgnoreCase(activeReplacements, key)
             value == activeReplacements[dictKey].v
         IN  IF dictKey # 0
             THEN [s |-> IF isInternalLink
                         THEN replaceInvalidChars(value, invalidCharReplacement)
                         ELSE value,
                   err |-> FALSE]
             ELSE [s |-> match, err |-> FALSE]

\* The callback removing a placeholder whose key is not in the dictionary.
replaceMatchDropsUnknown(match, key, file, isInternalLink) ==
    IF startsWith(key, <<"L", ":">>)
    THEN LET propertyKey == substringFrom(key, 2)
             actualKey == FindKeyIgnoreCase(file.frontmatter, propertyKey)
             stringValue == String(file.frontmatter[actualKey].v)
         IN  IF file.kind # "TFile" \/ file.extension # "md"
             THEN [s |-> match, err |-> FALSE]
             ELSE IF ~file.hasFrontmatter
             THEN [s |-> match, err |-> FALSE]
             ELSE IF actualKey = 0
             THEN [s |-> <<>>, err |-> TRUE]
             ELSE IF isInternalLink
             THEN [s |-> replaceInvalidChars(stringValue, invalidCharReplacement),
                   err |-> FALSE]
             ELSE [s |-> stringValue, err |-> FALSE]
    ELSE LET activeReplacements == getActiveLinkReplacements
             dictKey == FindKeyIgnoreCase(activeReplacements, key)
             value == activeReplacements[dictKey].v
         IN  IF dictKey # 0
             THEN [s |-> IF isInternalLink
                         THEN replaceInvalidChars(value, invalidCharReplacement)
                         ELSE value,
                   err |-> FALSE]
             ELSE [s |-> <<>>, err |-> FALSE]

\* The replace callback for one match: the text that replaces it, and
\* whether it raised hasPropertyError.
replaceMatch(match, key, file, isInternalLink) ==
    IF startsWith(key, <<"L", ":">>)
    THEN LET propertyKey == substringFrom(key, 2)
             actualKey == FindKeyIgnoreCase(file.frontmatter, propertyKey)
             stringValue == String(file.frontmatter[actualKey].v)
         IN  IF file.kind # "TFile" \/ file.extension # "md"
             THEN [s |-> match, err |-> FALSE]
             ELSE IF ~file.hasFrontmatter
             THEN [s |-> match, err |-> FALSE]
             ELSE IF actualKey = 0
             THEN [s |-> <<>>, err |-> TRUE]
             ELSE IF isInternalLink
             THEN [s |-> replaceInvalidChars(stringValue, invalidCharReplacement),
                   err |-> FALSE]
             ELSE [s |-> stringValue, err |-> FALSE]
    ELSE LET activeReplacements == getActiveLinkReplacements
             dictKey == FindKeyIgnoreCase(activeReplacements, key)
             value == activeReplacements[dictKey].v
         IN  IF dictKey # 0
             THEN [s |-> IF isInternalLink
                         THEN replaceInvalidChars(value, invalidCharReplacement)
                         ELSE value,
                   err |-> FALSE]
             ELSE [s |-> match, err |-> FALSE]

\* text.replace(pattern, callback): the text from position i on, with every
\* match among ms (those not yet passed) replaced by the callback's result.
RECURSIVE replaceFrom(_, _, _, _, _)
replaceFrom(text, i, ms, file, isInternalLink) ==
    IF ms = <<>> THEN SubSeq(text, i, Len(text))
    ELSE LET m == Head(ms)
         IN  SubSeq(text, i, m.from - 1)
               \o replaceMatch(m.match, m.key, file, isInternalLink).s
               \o replaceFrom(text, m.to + 1, Tail(ms), file, isInternalLink)

\* replacePatterns(text, sourcePath, isInternalLink): the returned string and
\* the value it leaves in hasPropertyError (reset first, raised by any match).
replacePatterns(text, sourcePath, isInternalLink, active) ==
    LET file == ContextFile(sourcePath, active)
        ms == matchAll(text)
    IN  [result |-> replaceFrom(text, 1, ms, file, isInternalLink),
         hasPropertyError |->
             \E n \in 1..Len(ms) :
                 replaceMatch(ms[n].match, ms[n].key, file, isInternalLink).err]

-----------------------------------------------------------------------------
(* MyPlugin: balanced-brace scanning and OR patterns                       *)

\* The inner while loop shared by hasOrPattern and extractBalancedPatterns:
\* from position i with braceCount open braces, up to the end of the text or
\* to the "}" that brings braceCount to 0.
RECURSIVE scanBraces(_, _, _, _)
scanBraces(text, i, braceCount, content) ==
    IF ~(i <= Len(text) /\ braceCount > 0)
    THEN [i |-> i, braceCount |-> braceCount, content |-> content]
    ELSE IF text[i] = "{"
         THEN scanBraces(text, i + 1, braceCount + 1, Append(content, text[i]))
    ELSE IF text[i] = "}"
         THEN scanBraces(text, i + 1, braceCount - 1,
                         IF braceCount - 1 > 0 THEN Append(content, text[i]) ELSE content)
    ELSE scanBraces(text, i + 1, braceCount, Append(content, text[i]))

OpensAt(text, i) == i + 1 <= Len(text) /\ text[i] = "$" /\ text[i + 1] = "{"

RECURSIVE hasOrPatternFrom(_, _)
hasOrPatternFrom(text, i) ==
    IF i > Len(text) THEN FALSE
    ELSE IF OpensAt(text, i)
         THEN LET r == scanBraces(text, i + 2, 1, <<>>)
              IN  IF includes(r.content, <<",", ",">>) THEN TRUE
                  ELSE hasOrPatternFrom(text, r.i)
    ELSE hasOrPatternFrom(text, i + 1)

hasOrPattern(text) == hasOrPatternFrom(text, 1)

\* The scan pushing a span without the braceCount === 0 test.
RECURSIVE extractBalancedUnchecked(_, _)
extractBalancedUnchecked(text, i) ==
    IF i > Len(text) THEN <<>>
    ELSE IF OpensAt(text, i)
         THEN LET r == scanBraces(text, i + 2, 1, <<>>)
              IN  << [match |-> SubSeq(text, i, r.i - 1),
                      content |-> r.content, index |-> i - 1] >>
                    \o extractBalancedUnchecked(text, r.i)
    ELSE extractBalancedUnchecked(text, i + 1)

RECURSIVE extractBalancedFrom(_, _)
extractBalancedFrom(text, i) ==
    IF i > Len(text) THEN <<>>
    ELSE IF OpensAt(text, i)
         THEN LET r == scanBraces(text, i + 2, 1, <<>>)
              IN  (IF r.braceCount = 0
                   THEN << [match |-> SubSeq(text, i, r.i - 1),
                            content |-> r.content, index |-> i - 1] >>
                   ELSE <<>>) \o extractBalancedFrom(text, r.i)
    ELSE extractBalancedFrom(text, i + 1)

extractBalancedPatterns(text) == extractBalancedFrom(text, 1)

\* matches.filter(m => m.content.includes(',,'))
orMatchesOf(text) ==
    SelectSeq(extractBalancedPatterns(text), LAMBDA m : includes(m.content, <<",", ",">>))

\* The option trimmed but never wrapped.
processOptionBroken(opt) == trim(opt)

\* One option after trimming and the bare-word sugar.
processOption(opt) ==
    LET trimmed == trim(opt)
    IN  IF ~includes(trimmed, <<"$", "{">>)
        THEN <<"$", "{">> \o trimmed \o <<"}">>
        ELSE trimmed

allOptionGroups(orMatches) ==
    [g \in 1..Len(orMatches) |->
        LET splitOptions == split(orMatches[g].content, <<",", ",">>)
        IN  [o \in 1..Len(splitOptions) |-> processOption(splitOptions[o])]]

\* result.push([item, ...combination]) for every combination, one item.
prependAll(item, combinations) ==
    [c \in 1..Len(combinations) |-> <<item>> \o combinations[c]]

RECURSIVE forEachItem(_, _)
forEachItem(first, restCombinations) ==
    IF first = <<>> THEN <<>>
    ELSE prependAll(Head(first), restCombinations)
           \o forEachItem(Tail(first), restCombinations)

\* The nested loops swapped: the first group's item changes fastest.
RECURSIVE forEachItemSwapped(_, _)
forEachItemSwapped(first, restCombinations) ==
    IF restCombinations = <<>> THEN <<>>
    ELSE [i \in 1..Len(first) |-> <<first[i]>> \o Head(restCombinations)]
           \o forEachItemSwapped(first, Tail(restCombinations))

RECURSIVE generateCombinationsSwapped(_)
generateCombinationsSwapped(groups) ==
    IF Len(groups) = 0 THEN << <<>> >>
    ELSE IF Len(groups) = 1 THEN [i \in 1..Len(groups[1]) |-> <<groups[1][i]>>]
    ELSE forEachItemSwapped(Head(groups), generateCombinationsSwapped(Tail(groups)))

RECURSIVE generateCombinations(_)
generateCombinations(groups) ==
    IF Len(groups) = 0 THEN << <<>> >>
    ELSE IF Len(groups) = 1 THEN [i \in 1..Len(groups[1]) |-> <<groups[1][i]>>]
    ELSE forEachItem(Head(groups), generateCombinations(Tail(groups)))

\* The orMatches.forEach of one combination: from match number index on,
\* every occurrence of the match's text becomes the combination's option.
RECURSIVE substituteOptions(_, _, _, _)
substituteOptions(processedText, orMatches, combination, index) ==
    IF index > Len(orMatches) THEN processedText
    ELSE substituteOptions(
             replaceAll(processedText, orMatches[index].match, combination[index]),
             orMatches, combination, index + 1)

\* keysInOption: the keys of every option of the combination, in order.
RECURSIVE keysOfCombination(_)
keysOfCombination(combination) ==
    IF combination = <<>> THEN <<>>
    ELSE extractKeysFromPattern(Head(combination)) \o keysOfCombination(Tail(combination))

\* The display value: the dictionary value of the first option's first key
\* when it has one that is in the active dictionary, else the option's text.
choiceValue(combination) ==
    LET activeReplacements == getActiveLinkReplacements
        firstOptionKeys == extractKeysFromPattern(combination[1])
        dictKey == FindKeyIgnoreCase(activeReplacements, firstOptionKeys[1])
    IN  IF Len(firstOptionKeys) > 0 /\ dictKey # 0
        THEN activeReplacements[dictKey].v
        ELSE combination[1]

\* The text handed to replacePatterns for each combination, in order.
processedTexts(text) ==
    LET orMatches == orMatchesOf(text)
        combinations == generateCombinations(allOptionGroups(orMatches))
    IN  [c \in 1..Len(combinations) |->
            substituteOptions(text, orMatches, combinations[c], 1)]

generateOrPatternChoices(text, sourcePath, isInternalLink, active) ==
    LET orMatches == orMatchesOf(text)
        combinations == generateCombinations(allOptionGroups(orMatches))
    IN  IF Len(orMatches) = 0
        THEN << [label |-> <<"O", "p", "e", "n">>,
                 url |-> replacePatterns(text, sourcePath, isInternalLink, active).result,
                 value |-> <<>>,
                 keys |-> <<>>] >>
        ELSE [c \in 1..Len(combinations) |->
                [label |-> join(combinations[c], <<" ", "+", " ">>),
                 url |-> replacePatterns(
                             substituteOptions(text, orMatches, combinations[c], 1),
                             sourcePath, isInternalLink, active).result,
                 value |-> choiceValue(combinations[c]),
                 keys |-> keysOfCombination(combinations[c])]]

\* hasPropertyError after generateOrPatternChoices: every replacePatterns
\* call resets it, so it is the value the last call leaves.
errorAfterChoices(text, sourcePath, isInternalLink, active) ==
    LET texts == processedTexts(text)
    IN  IF Len(orMatchesOf(text)) = 0
        THEN replacePatterns(text, sourcePath, isInternalLink, active).hasPropertyError
        ELSE replacePatterns(texts[Len(texts)], sourcePath, isInternalLink, active).hasPropertyError

\* The filter with every in place of some.
filterChoicesBroken(choices) ==
    SelectSeq(choices, LAMBDA choice :
        ~\A n \in 1..Len(choice.keys) : isKeyIgnored(choice.keys[n]))

\* choices.filter(choice => !choice.keys.some(key => isKeyIgnored(key)))
filterChoices(choices) ==
    SelectSeq(choices, LAMBDA choice :
        ~\E n \in 1..Len(choice.keys) : isKeyIgnored(choice.keys[n]))

-----------------------------------------------------------------------------
(* onload: the patched openLinkText and the LinkChoiceModal                *)

NoModal == [open |-> FALSE]

\* The call that always passes newLeaf as false.
HostCallWithoutNewLeaf(linktext, sourcePath, opts) ==
    [linktext |-> linktext, sourcePath |-> sourcePath,
     newLeaf |-> FALSE, openViewState |-> opts.openViewState]

\* originalOpenLinkText.call(workspace, linktext, sourcePath, newLeaf, openViewState)
HostCall(linktext, sourcePath, opts) ==
    [linktext |-> linktext, sourcePath |-> sourcePath,
     newLeaf |-> opts.newLeaf, openViewState |-> opts.openViewState]

\* The OR branch opening choices[0] in place of filteredChoices[0].
OpenOrPatternBroken(linktext, sourcePath, opts, active) ==
    LET choices == generateOrPatternChoices(linktext, sourcePath, TRUE, active)
        filteredChoices == filterChoices(choices)
    IN  /\ hasPropertyError' = errorAfterChoices(linktext, sourcePath, TRUE, active)
        /\ event' = [kind |-> "openLinkText", linktext |-> linktext,
                     sourcePath |-> sourcePath, opts |-> opts, active |-> active,
                     hasOrPattern |-> TRUE, filteredChoices |-> filteredChoices,
                     notice |-> IF Len(filteredChoices) = 0 THEN "all ignored" ELSE ""]
        /\ hostCalls' = IF Len(filteredChoices) = 1
                        THEN << HostCall(choices[1].url, sourcePath, opts) >>
                        ELSE <<>>
        /\ modal' = IF Len(filteredChoices) >= 2
                    THEN [open |-> TRUE, choices |-> filteredChoices,
                          sourcePath |-> sourcePath, opts |-> opts]
                    ELSE NoModal

\* The OR branch of the patched openLinkText.
OpenOrPattern(linktext, sourcePath, opts, active) ==
    LET choices == generateOrPatternChoices(linktext, sourcePath, TRUE, active)
        filteredChoices == filterChoices(choices)
    IN  /\ hasPropertyError' = errorAfterChoices(linktext, sourcePath, TRUE, active)
        /\ event' = [kind |-> "openLinkText", linktext |-> linktext,
                     sourcePath |-> sourcePath, opts |-> opts, active |-> active,
                     hasOrPattern |-> TRUE, filteredChoices |-> filteredChoices,
                     notice |-> IF Len(filteredChoices) = 0 THEN "all ignored" ELSE ""]
        /\ hostCalls' = IF Len(filteredChoices) = 1
                        THEN << HostCall(filteredChoices[1].url, sourcePath, opts) >>
                        ELSE <<>>
        /\ modal' = IF Len(filteredChoices) >= 2
                    THEN [open |-> TRUE, choices |-> filteredChoices,
                          sourcePath |-> sourcePath, opts |-> opts]
                    ELSE NoModal

\* The branch of the patched openLinkText for a link without OR pattern.
OpenPlain(linktext, sourcePath, opts, active) ==
    LET processed == replacePatterns(linktext, sourcePath, TRUE, active)
    IN  /\ hasPropertyError' = processed.hasPropertyError
        /\ event' = [kind |-> "openLinkText", linktext |-> linktext,
                     sourcePath |-> sourcePath, opts |-> opts, active |-> active,
                     hasOrPattern |-> FALSE, filteredChoices |-> <<>>, notice |-> ""]
        /\ hostCalls' = IF processed.hasPropertyError THEN <<>>
                        ELSE IF processed.result # linktext
                        THEN << HostCall(processed.result, sourcePath, opts) >>
                        ELSE << HostCall(linktext, sourcePath, opts) >>
        /\ modal' = NoModal

\* workspace.openLinkText(linktext, sourcePath, newLeaf, openViewState), patched.
OpenLinkText(linktext, sourcePath, opts, active) ==
    /\ ~modal.open
    /\ IF hasOrPattern(linktext)
       THEN OpenOrPattern(linktext, sourcePath, opts, active)
       ELSE OpenPlain(linktext, sourcePath, opts, active)
    /\ menu' = <<>>
    /\ opened' = <<>>
    /\ UNCHANGED <<settingsVars, defaultValue, workspaceOpenLinkText>>

\* A click on button number i of the modal: onChoose(choice.url), then close().
ModalChoose(i) ==
    /\ modal.open
    /\ i \in 1..Len(modal.choices)
    /\ hostCalls' = Append(hostCalls,
                           HostCall(modal.choices[i].url, modal.sourcePath, modal.opts))
    /\ event' = [kind |-> "modalChoose", picked |-> i, choices |-> modal.choices,
                 sourcePath |-> modal.sourcePath, opts |-> modal.opts]
    /\ modal' = NoModal
    /\ UNCHANGED <<settingsVars, defaultValue, workspaceOpenLinkText, hasPropertyError, menu, opened>>

\* The modal is dismissed without a choice.
ModalClose ==
    /\ modal.open
    /\ modal' = NoModal
    /\ event' = [kind |-> "modalClose"]
    /\ UNCHANGED <<settingsVars, defaultValue, workspaceOpenLinkText, hasPropertyError, hostCalls, menu, opened>>

\* The plugin is unloaded: the function given to this.register puts the
\* original openLinkText back.  An open modal stays open.
Unload ==
    /\ workspaceOpenLinkText = "patched"
    /\ workspaceOpenLinkText' = "original"
    /\ event' = [kind |-> "onunload"]
    /\ hostCalls' = <<>>
    /\ menu' = <<>>
    /\ opened' = <<>>
    /\ UNCHANGED <<settingsVars, defaultValue, hasPropertyError, modal>>

\* app.workspace.openLinkText(...) as the host calls it: the patch while the
\* plugin is loaded, the original after it.
WorkspaceOpenLinkText(linktext, sourcePath, opts, active) ==
    IF workspaceOpenLinkText = "patched"
    THEN OpenLinkText(linktext, sourcePath, opts, active)
    ELSE /\ ~modal.open
         /\ hostCalls' = << HostCall(linktext, sourcePath, opts) >>
         /\ event' = [kind |-> "originalOpenLinkText", linktext |-> linktext,
                      sourcePath |-> sourcePath, opts |-> opts]
         /\ menu' = <<>>
         /\ opened' = <<>>
         /\ UNCHANGED <<settingsVars, defaultValue, workspaceOpenLinkText,
                        hasPropertyError, modal>>

-----------------------------------------------------------------------------
(* onload: the url-menu handler                                            *)

\* The characters the model's "%XX" escapes stand for.
Unescape(h1, h2) ==
    CASE h1 = "2" /\ h2 = "0" -> " "
      [] h1 = "2" /\ h2 = "4" -> "$"
      [] h1 = "2" /\ h2 = "C" -> ","
      [] h1 = "7" /\ h2 = "B" -> "{"
      [] h1 = "7" /\ h2 = "D" -> "}"
      [] OTHER -> "?"

\* "%" must be followed by an escape the model knows; anything else is the
\* URIError of a malformed sequence.
RECURSIVE Malformed(_)
Malformed(url) ==
    IF url = <<>> THEN FALSE
    ELSE IF Head(url) = "%"
         THEN \/ Len(url) < 3
              \/ Unescape(url[2], url[3]) = "?"
              \/ Malformed(SubSeq(url, 4, Len(url)))
    ELSE Malformed(Tail(url))

RECURSIVE Decoded(_)
Decoded(url) ==
    IF url = <<>> THEN <<>>
    ELSE IF Head(url) = "%"
         THEN <<Unescape(url[2], url[3])>> \o Decoded(SubSeq(url, 4, Len(url)))
    ELSE <<Head(url)>> \o Decoded(Tail(url))

\* try { decodeURIComponent(url) } catch { url }
decodeUrl(url) == IF Malformed(url) THEN url ELSE Decoded(url)

\* The two menu.addItem blocks for one candidate: its rank among the
\* surviving candidates, its url and display value, its keys' merged preference.
menuItemsFor(rank, url, value, pref, hasWebviewerOption) ==
    (IF hasWebviewerOption /\ pref.webviewer
     THEN << [kind |-> "webviewer", choice |-> rank, url |-> url, value |-> value] >>
     ELSE <<>>)
    \o
    (IF pref.external \/ ~hasWebviewerOption
     THEN << [kind |-> "external", choice |-> rank, url |-> url, value |-> value] >>
     ELSE <<>>)

prefOfKeys(keys) ==
    IF Len(keys) > 0 THEN getMergedOpenInPreference(keys)
    ELSE [webviewer |-> TRUE, external |-> TRUE]

\* filteredChoices.forEach(...): the items of the choices from number n on.
RECURSIVE orMenuItems(_, _, _)
orMenuItems(filteredChoices, n, hasWebviewerOption) ==
    IF n > Len(filteredChoices) THEN <<>>
    ELSE menuItemsFor(n, filteredChoices[n].url, filteredChoices[n].value,
                      prefOfKeys(filteredChoices[n].keys), hasWebviewerOption)
           \o orMenuItems(filteredChoices, n + 1, hasWebviewerOption)

\* workspace.on('url-menu', (menu, url) => ...)
UrlMenu(url, hasWebviewerOption, active) ==
    LET decodedUrl == decodeUrl(url)
        hasOr == hasOrPattern(decodedUrl)
        processed == replacePatterns(decodedUrl, "", FALSE, active)
        hasPattern == processed.result # decodedUrl \/ hasOr
        choices == generateOrPatternChoices(decodedUrl, "", FALSE, active)
        filteredChoices == filterChoices(choices)
        keys == extractKeysFromPattern(decodedUrl)
        hasIgnoredKey == \E n \in 1..Len(keys) : isKeyIgnored(keys[n])
    IN  /\ ~modal.open
        /\ hasPropertyError' =
              IF hasPattern /\ hasOr
              THEN errorAfterChoices(decodedUrl, "", FALSE, active)
              ELSE processed.hasPropertyError
        /\ menu' =
              IF ~hasPattern THEN <<>>
              ELSE IF hasOr THEN orMenuItems(filteredChoices, 1, hasWebviewerOption)
              ELSE IF hasIgnoredKey THEN <<>>
              ELSE menuItemsFor(1, processed.result, <<>>, prefOfKeys(keys),
                                hasWebviewerOption)
        /\ event' = [kind |-> "urlMenu", url |-> url, decodedUrl |-> decodedUrl,
                     hasWebviewerOption |-> hasWebviewerOption, active |-> active,
                     hasPattern |-> hasPattern, hasOrPattern |-> hasOr,
                     survivors |->
                        IF ~hasPattern THEN <<>>
                        ELSE IF hasOr THEN filteredChoices
                        ELSE IF hasIgnoredKey THEN <<>>
                        ELSE << [label |-> <<>>, url |-> processed.result,
                                 value |-> <<>>, keys |-> keys] >>]
        /\ hostCalls' = <<>>
        /\ opened' = <<>>
        /\ modal' = NoModal
        /\ UNCHANGED <<settingsVars, defaultValue, workspaceOpenLinkText>>

\* item.onClick of menu item number i; hasElectron says whether
\* window.require('electron').shell.openExternal exists.
MenuClick(i, hasElectron) ==
    /\ i \in 1..Len(menu)
    /\ opened' = << [item |-> menu[i],
                     via |-> IF menu[i].kind = "external" /\ hasElectron
                             THEN "shell.openExternal" ELSE "window.open",
                     url |-> removeDummyPrefix(menu[i].url)] >>
    /\ menu' = <<>>
    /\ event' = [kind |-> "menuClick", from |-> event]
    /\ UNCHANGED <<settingsVars, defaultValue, workspaceOpenLinkText, hasPropertyError, hostCalls, modal>>

-----------------------------------------------------------------------------
(* SampleSettingTab: the handlers of the settings editor                   *)

\* The most keys the dictionary is given.
MaxKeys == 2

\* The most profiles the list is given.
MaxProfiles == 2

\* A handler of the settings tab ran (notice is the Notice it showed, "" when
\* it showed none): the link menus and results are gone.
Edited(op, notice) ==
    /\ ~modal.open
    /\ event' = [kind |-> "edit", notice |-> notice]
    /\ hostCalls' = <<>>
    /\ menu' = <<>>
    /\ opened' = <<>>
    /\ UNCHANGED <<hasPropertyError, invalidCharReplacement, modal, workspaceOpenLinkText>>

\* renderReplacements() in edit mode: every row is drawn again and its
\* handlers capture the key's default value as it is now.
renderReplacements == defaultValue' = defaultLinkReplacements'

\* The add row without the check for ",".
AddKeyBroken(keyInput, valueInput) ==
    LET key == trim(keyInput)
    IN  /\ HasKey(defaultLinkReplacements, key) \/ Len(defaultLinkReplacements) < MaxKeys
        /\ IF key = <<>>
           THEN /\ Edited("addKey", "Key cannot be empty.")
                /\ UNCHANGED <<defaultLinkReplacements, openInPreferences, defaultValue>>
           ELSE IF includes(key, <<":">>)
           THEN /\ Edited("addKey", "Key cannot contain ':'")
                /\ UNCHANGED <<defaultLinkReplacements, openInPreferences, defaultValue>>
           ELSE /\ Edited("addKey", "")
                /\ defaultLinkReplacements' =
                      Put(defaultLinkReplacements, [k |-> key, v |-> valueInput])
                /\ openInPreferences' =
                      IF ~HasKey(openInPreferences, key)
                      THEN Append(openInPreferences,
                                  [k |-> key, webviewer |-> TRUE, external |-> TRUE])
                      ELSE openInPreferences
                /\ renderReplacements
        /\ UNCHANGED deviceProfiles

\* addButton click: add a key to the defaults.
AddKey(keyInput, valueInput) ==
    LET key == trim(keyInput)
    IN  /\ HasKey(defaultLinkReplacements, key) \/ Len(defaultLinkReplacements) < MaxKeys
        /\ IF key = <<>>
           THEN /\ Edited("addKey", "Key cannot be empty.")
                /\ UNCHANGED <<defaultLinkReplacements, openInPreferences, defaultValue>>
           ELSE IF includes(key, <<":">>)
           THEN /\ Edited("addKey", "Key cannot contain ':'")
                /\ UNCHANGED <<defaultLinkReplacements, openInPreferences, defaultValue>>
           ELSE IF includes(key, <<",">>)
           THEN /\ Edited("addKey", "Key cannot contain ','")
                /\ UNCHANGED <<defaultLinkReplacements, openInPreferences, defaultValue>>
           ELSE /\ Edited("addKey", "")
                /\ defaultLinkReplacements' =
                      Put(defaultLinkReplacements, [k |-> key, v |-> valueInput])
                /\ openInPreferences' =
                      IF ~HasKey(openInPreferences, key)
                      THEN Append(openInPreferences,
                                  [k |-> key, webviewer |-> TRUE, external |-> TRUE])
                      ELSE openInPreferences
                /\ renderReplacements
        /\ UNCHANGED deviceProfiles

\* obj with the entry of key, when it has one, moved to newKey.
Rename(obj, key, newKey) ==
    IF HasKey(obj, key)
    THEN Put(Delete(obj, key), [Get(obj, key) EXCEPT !.k = newKey])
    ELSE obj

\* The rename that moves the default and the preference but no override.
RenameKeyDefaultsOnly(key, keyInput) ==
    LET newKey == trim(keyInput)
        existingKey ==
            \E i \in 1..Len(defaultLinkReplacements) :
                /\ toLowerCase(defaultLinkReplacements[i].k) = toLowerCase(newKey)
                /\ defaultLinkReplacements[i].k # key
    IN  /\ HasKey(defaultLinkReplacements, key)
        /\ IF newKey = key \/ newKey = <<>> \/ includes(newKey, <<":">>)
              \/ includes(newKey, <<",">>) \/ existingKey
           THEN /\ Edited("renameKey", IF newKey = key THEN "" ELSE "Key rejected.")
                /\ UNCHANGED <<defaultLinkReplacements, deviceProfiles, openInPreferences,
                               defaultValue>>
           ELSE /\ Edited("renameKey", "")
                /\ defaultLinkReplacements' = Rename(defaultLinkReplacements, key, newKey)
                /\ openInPreferences' = Rename(openInPreferences, key, newKey)
                /\ UNCHANGED deviceProfiles
                /\ renderReplacements

\* keyInput blur on the row of a default key.
RenameKey(key, keyInput) ==
    LET newKey == trim(keyInput)
        existingKey ==
            \E i \in 1..Len(defaultLinkReplacements) :
                /\ toLowerCase(defaultLinkReplacements[i].k) = toLowerCase(newKey)
                /\ defaultLinkReplacements[i].k # key
    IN  /\ HasKey(defaultLinkReplacements, key)
        /\ IF newKey = key
           THEN /\ Edited("renameKey", "")
                /\ UNCHANGED <<defaultLinkReplacements, deviceProfiles, openInPreferences,
                               defaultValue>>
           ELSE IF newKey = <<>>
           THEN /\ Edited("renameKey", "Key cannot be empty.")
                /\ UNCHANGED <<defaultLinkReplacements, deviceProfiles, openInPreferences,
                               defaultValue>>
           ELSE IF includes(newKey, <<":">>)
           THEN /\ Edited("renameKey", "Key cannot contain ':'")
                /\ UNCHANGED <<defaultLinkReplacements, deviceProfiles, openInPreferences,
                               defaultValue>>
           ELSE IF includes(newKey, <<",">>)
           THEN /\ Edited("renameKey", "Key cannot contain ','")
                /\ UNCHANGED <<defaultLinkReplacements, deviceProfiles, openInPreferences,
                               defaultValue>>
           ELSE IF existingKey
           THEN /\ Edited("renameKey", "Key already exists.")
                /\ UNCHANGED <<defaultLinkReplacements, deviceProfiles, openInPreferences,
                               defaultValue>>
           ELSE /\ Edited("renameKey", "")
                /\ defaultLinkReplacements' = Rename(defaultLinkReplacements, key, newKey)
                /\ deviceProfiles' =
                      [p \in 1..Len(deviceProfiles) |->
                          [deviceProfiles[p] EXCEPT !.linkReplacements = Rename(@, key, newKey)]]
                /\ openInPreferences' = Rename(openInPreferences, key, newKey)
                /\ renderReplacements

\* valueInput blur on the row of a default key: nothing is drawn again.
ValueBlur(key, valueInput) ==
    LET newValue == valueInput
    IN  /\ HasKey(defaultValue, key)
        /\ ~modal.open
        /\ event' = [kind |-> "valueBlur", key |-> key, newValue |-> newValue]
        /\ defaultLinkReplacements' =
              IF newValue # Get(defaultValue, key).v
              THEN Put(defaultLinkReplacements, [k |-> key, v |-> newValue])
              ELSE defaultLinkReplacements
        /\ hostCalls' = <<>>
        /\ menu' = <<>>
        /\ opened' = <<>>
        /\ UNCHANGED <<deviceProfiles, openInPreferences, invalidCharReplacement,
                       hasPropertyError, modal, defaultValue, workspaceOpenLinkText>>

\* createButton click, shown while the vault has no profile.
CreateProfile(nameInput) ==
    LET profileName == trim(nameInput)
    IN  /\ CurrentProfileIndex = 0
        /\ Len(deviceProfiles) < MaxProfiles
        /\ UNCHANGED <<defaultLinkReplacements, openInPreferences>>
        /\ IF profileName = <<>>
           THEN /\ Edited("createProfile", "Profile name cannot be empty.")
                /\ UNCHANGED <<deviceProfiles, defaultValue>>
           ELSE IF Len(profileName) > 20
           THEN /\ Edited("createProfile", "Profile name must be 20 characters or less.")
                /\ UNCHANGED <<deviceProfiles, defaultValue>>
           ELSE /\ Edited("createProfile", "")
                /\ deviceProfiles' =
                      Append(deviceProfiles,
                             [profileName |-> profileName,
                              vaultPath |-> getCurrentVaultPath,
                              linkReplacements |-> <<>>])
                /\ renderReplacements

\* addButton click of the profile list; path is newPathInput.value trimmed.
AddProfile(nameInput, path) ==
    LET name == trim(nameInput)
        existing == \E i \in 1..Len(deviceProfiles) : deviceProfiles[i].vaultPath = path
    IN  /\ Len(deviceProfiles) < MaxProfiles
        /\ UNCHANGED <<defaultLinkReplacements, openInPreferences>>
        /\ IF name = <<>>
           THEN /\ Edited("addProfile", "Profile name cannot be empty.")
                /\ UNCHANGED <<deviceProfiles, defaultValue>>
           ELSE IF Len(name) > 20
           THEN /\ Edited("addProfile", "Profile name must be 20 characters or less.")
                /\ UNCHANGED <<deviceProfiles, defaultValue>>
           ELSE IF path = ""
           THEN /\ Edited("addProfile", "Vault path cannot be empty.")
                /\ UNCHANGED <<deviceProfiles, defaultValue>>
           ELSE IF existing
           THEN /\ Edited("addProfile", "A profile with this vault path already exists.")
                /\ UNCHANGED <<deviceProfiles, defaultValue>>
           ELSE /\ Edited("addProfile", "")
                /\ deviceProfiles' =
                      Append(deviceProfiles,
                             [profileName |-> name, vaultPath |-> path,
                              linkReplacements |-> <<>>])
                /\ renderReplacements

\* nameInput blur on the row of profile number p.
EditProfileName(p, nameInput) ==
    LET newName == trim(nameInput)
    IN  /\ p \in 1..Len(deviceProfiles)
        /\ UNCHANGED <<defaultLinkReplacements, openInPreferences>>
        /\ IF newName = <<>>
           THEN /\ Edited("editProfileName", "Profile name cannot be empty.")
                /\ UNCHANGED <<deviceProfiles, defaultValue>>
           ELSE IF Len(newName) > 20
           THEN /\ Edited("editProfileName", "Profile name must be 20 characters or less.")
                /\ UNCHANGED <<deviceProfiles, defaultValue>>
           ELSE IF newName # deviceProfiles[p].profileName
           THEN /\ Edited("editProfileName", "")
                /\ deviceProfiles' = [deviceProfiles EXCEPT ![p].profileName = newName]
                /\ renderReplacements
           ELSE /\ Edited("editProfileName", "")
                /\ UNCHANGED <<deviceProfiles, defaultValue>>

\* pathInput blur on the row of profile number p; newPath is pathInput.value
\* trimmed.
EditVaultPath(p, newPath) ==
    /\ p \in 1..Len(deviceProfiles)
    /\ UNCHANGED <<defaultLinkReplacements, openInPreferences>>
    /\ IF newPath = ""
       THEN /\ Edited("editVaultPath", "Vault path cannot be empty.")
            /\ UNCHANGED <<deviceProfiles, defaultValue>>
       ELSE IF newPath # deviceProfiles[p].vaultPath
       THEN /\ Edited("editVaultPath", "")
            /\ deviceProfiles' = [deviceProfiles EXCEPT ![p].vaultPath = newPath]
            /\ renderReplacements
       ELSE /\ Edited("editVaultPath", "")
            /\ UNCHANGED <<deviceProfiles, defaultValue>>

\* deleteButton click on the row of profile number p.
DeleteProfile(p) ==
    /\ p \in 1..Len(deviceProfiles)
    /\ Edited("deleteProfile", "")
    /\ deviceProfiles' =
          [i \in 1..(Len(deviceProfiles) - 1) |->
              IF i < p THEN deviceProfiles[i] ELSE deviceProfiles[i + 1]]
    /\ UNCHANGED <<defaultLinkReplacements, openInPreferences>>
    /\ renderReplacements

\* The profile "+ Override" writes to: the only profile without an override
\* for the key, else the current profile when it has none, else the first.
OverrideTarget(key) ==
    LET without == {i \in 1..Len(deviceProfiles) :
                       ~HasKey(deviceProfiles[i].linkReplacements, key)}
        first == CHOOSE i \in without : \A j \in without : i <= j
    IN  IF CurrentProfileIndex \in without /\ Cardinality(without) > 1
        THEN CurrentProfileIndex
        ELSE first

\* addOverrideButton click on the row of a default key.
AddOverride(key) ==
    /\ HasKey(defaultLinkReplacements, key)
    /\ \E i \in 1..Len(deviceProfiles) : ~HasKey(deviceProfiles[i].linkReplacements, key)
    /\ Edited("addOverride", "")
    /\ deviceProfiles' =
          [deviceProfiles EXCEPT ![OverrideTarget(key)].linkReplacements =
              Put(@, [k |-> key, v |-> Get(defaultValue, key).v])]
    /\ UNCHANGED <<defaultLinkReplacements, openInPreferences>>
    /\ renderReplacements

\* ignoredButton click on the override row of profile p for a key.
ToggleIgnored(p, key) ==
    /\ p \in 1..Len(deviceProfiles)
    /\ HasKey(defaultLinkReplacements, key)
    /\ HasKey(deviceProfiles[p].linkReplacements, key)
    /\ Edited("toggleIgnored", "")
    /\ deviceProfiles' =
          [deviceProfiles EXCEPT ![p].linkReplacements =
              Put(@, [k |-> key,
                      v |-> IF Get(@, key).v = IGNORE
                            THEN Get(defaultValue, key).v
                            ELSE IGNORE])]
    /\ UNCHANGED <<defaultLinkReplacements, openInPreferences>>
    /\ renderReplacements

\* profileDropdown change on the override row of profile p for a key: the
\* profile of row q of the list was picked.
MoveOverride(p, key, q) ==
    LET newVaultPath == deviceProfiles[q].vaultPath
        hits == {i \in 1..Len(deviceProfiles) : deviceProfiles[i].vaultPath = newVaultPath}
        newProfile == CHOOSE i \in hits : \A j \in hits : i <= j
        overrideValue == Get(deviceProfiles[p].linkReplacements, key).v
    IN  /\ p \in 1..Len(deviceProfiles)
        /\ q \in 1..Len(deviceProfiles)
        /\ q # p
        /\ HasKey(defaultLinkReplacements, key)
        /\ HasKey(deviceProfiles[p].linkReplacements, key)
        /\ UNCHANGED <<defaultLinkReplacements, openInPreferences>>
        /\ IF HasKey(deviceProfiles[newProfile].linkReplacements, key)
           THEN /\ Edited("moveOverride", "Profile already has an override.")
                /\ UNCHANGED <<deviceProfiles, defaultValue>>
           ELSE /\ Edited("moveOverride", "")
                /\ deviceProfiles' =
                      [i \in 1..Len(deviceProfiles) |->
                          IF i = newProfile
                          THEN [deviceProfiles[i] EXCEPT !.linkReplacements =
                                   Put(@, [k |-> key, v |-> overrideValue])]
                          ELSE IF i = p
                          THEN [deviceProfiles[i] EXCEPT !.linkReplacements = Delete(@, key)]
                          ELSE deviceProfiles[i]]
                /\ renderReplacements

\* deleteOverrideButton click on the override row of profile p for a key.
DeleteOverride(p, key) ==
    /\ p \in 1..Len(deviceProfiles)
    /\ HasKey(defaultLinkReplacements, key)
    /\ HasKey(deviceProfiles[p].linkReplacements, key)
    /\ Edited("deleteOverride", "")
    /\ deviceProfiles' =
          [deviceProfiles EXCEPT ![p].linkReplacements = Delete(@, key)]
    /\ UNCHANGED <<defaultLinkReplacements, openInPreferences>>
    /\ renderReplacements

\* deleteButton click on the row of a default key.
DeleteKey(key) ==
    /\ HasKey(defaultLinkReplacements, key)
    /\ Edited("deleteKey", "")
    /\ defaultLinkReplacements' = Delete(defaultLinkReplacements, key)
    /\ deviceProfiles' =
          [p \in 1..Len(deviceProfiles) |->
              [deviceProfiles[p] EXCEPT !.linkReplacements = Delete(@, key)]]
    /\ openInPreferences' = Delete(openInPreferences, key)
    /\ renderReplacements

\* The toggle without the test for the last enabled option.
TogglePreferenceUnguarded(key, field) ==
    LET currentPref == Get(openInPreferences, key)
    IN  /\ HasKey(defaultLinkReplacements, key)
        /\ HasKey(openInPreferences, key)
        /\ Edited("togglePreference", "")
        /\ openInPreferences' =
              Put(openInPreferences, [currentPref EXCEPT ![field] = ~@])
        /\ UNCHANGED <<defaultLinkReplacements, deviceProfiles>>
        /\ renderReplacements

\* The toggle buttons of a key's row; field is "webviewer" or "external".
TogglePreference(key, field) ==
    LET currentPref == Get(openInPreferences, key)
        otherField == IF field = "webviewer" THEN "external" ELSE "webviewer"
    IN  /\ HasKey(defaultLinkReplacements, key)
        /\ HasKey(openInPreferences, key)
        /\ UNCHANGED <<defaultLinkReplacements, deviceProfiles>>
        /\ IF currentPref[field] /\ ~currentPref[otherField]
           THEN /\ Edited("togglePreference", "At least one option must be enabled")
                /\ UNCHANGED <<openInPreferences, defaultValue>>
           ELSE /\ Edited("togglePreference", "")
                /\ openInPreferences' =
                      Put(openInPreferences, [currentPref EXCEPT ![field] = ~@])
                /\ renderReplacements

-----------------------------------------------------------------------------
(* The plugin in use                                                       *)

\* What the user types into the add row of the dictionary: a key and its value.
NewEntries ==
    { [k |-> <<"A">>, v |-> <<"x", "/", "y">>],
      [k |-> <<"a">>, v |-> <<"w">>],
      [k |-> <<"B">>, v |-> <<"z">>] }

NameInputs == { <<"p", "c">> }

\* The links that are clicked: ${A,,B} and ${a}.
LinkTexts ==
    { <<"$", "{", "A", ",", ",", "B", "}">>,
      <<"$", "{", "a", "}">> }

\* The addresses that are right-clicked: dummy://${A}${B}.
Urls ==
    { DUMMY \o <<"$", "{", "A", "}", "$", "{", "B", "}">> }

CallOptions ==
    { [newLeaf |-> TRUE, openViewState |-> "source"] }

AllKeys == {defaultLinkReplacements[i].k : i \in 1..Len(defaultLinkReplacements)}

\* After onload with no saved data: DEFAULT_SETTINGS.
Init ==
    /\ deviceProfiles = <<>>
    /\ defaultLinkReplacements = <<>>
    /\ defaultValue = <<>>
    /\ openInPreferences = <<>>
    /\ invalidCharReplacement = <<" ">>
    /\ hasPropertyError = FALSE
    /\ workspaceOpenLinkText = "patched"
    /\ event = [kind |-> "onload"]
    /\ hostCalls = <<>>
    /\ modal = NoModal
    /\ menu = <<>>
    /\ opened = <<>>

Next ==
    \/ \E e \in NewEntries : AddKey(e.k, e.v)
    \/ \E n \in NameInputs : CreateProfile(n)
    \/ \E k \in AllKeys : AddOverride(k)
    \/ \E p \in 1..Len(deviceProfiles), k \in AllKeys : ToggleIgnored(p, k)
    \/ \E k \in AllKeys, f \in {"webviewer", "external"} : TogglePreference(k, f)
    \/ \E t \in LinkTexts, o \in CallOptions : OpenLinkText(t, "note.md", o, "")
    \/ \E i \in 1..2 : ModalChoose(i)
    \/ ModalClose
    \/ \E u \in Urls, w \in BOOLEAN : UrlMenu(u, w, "note.md")
    \/ \E i \in 1..2, e \in BOOLEAN : MenuClick(i, e)

Spec == Init /\ [][Next]_vars

-----------------------------------------------------------------------------
(* Saved settings the plugin is loaded with                                *)

Pref(key, webviewer, external) ==
    [k |-> key, webviewer |-> webviewer, external |-> external]

Profile(name, path, overrides) ==
    [profileName |-> name, vaultPath |-> path, linkReplacements |-> overrides]

\* Settings saved by earlier sessions of the editor (loadSettings reads them
\* back): two keys and no profile; a profile that ignores A and overrides B,
\* with a default typed as the sentinel; keys A and a side by side (the add
\* row accepts both) with a ignored; a profile of another vault only; the
\* profiles of two vaults; no settings at all; two keys with "$&" typed
\* as the replacement of invalid characters; and a key A whose value is the
\* name of the key B.
Configs ==
    { [deviceProfiles |-> <<>>,
       defaultLinkReplacements |->
           << [k |-> <<"A">>, v |-> <<"x", "/", "y">>], [k |-> <<"B">>, v |-> <<"z">>] >>,
       openInPreferences |-> << Pref(<<"A">>, TRUE, TRUE), Pref(<<"B">>, TRUE, TRUE) >>,
       invalidCharReplacement |-> <<" ">>],
      [deviceProfiles |->
           << Profile(<<"p", "c">>, "/vault",
                      << [k |-> <<"A">>, v |-> IGNORE], [k |-> <<"B">>, v |-> <<"o", ":", "p">>] >>) >>,
       defaultLinkReplacements |->
           << [k |-> <<"A">>, v |-> <<"x", "/", "y">>], [k |-> <<"B">>, v |-> <<"z">>],
              [k |-> <<"C">>, v |-> IGNORE] >>,
       openInPreferences |->
           << Pref(<<"A">>, TRUE, FALSE), Pref(<<"B">>, FALSE, TRUE), Pref(<<"C">>, TRUE, TRUE) >>,
       invalidCharReplacement |-> <<"_">>],
      [deviceProfiles |->
           << Profile(<<"p", "c">>, "/vault", << [k |-> <<"a">>, v |-> IGNORE] >>) >>,
       defaultLinkReplacements |->
           << [k |-> <<"A">>, v |-> <<"x", "/", "y">>], [k |-> <<"a">>, v |-> <<"w">>] >>,
       openInPreferences |-> << Pref(<<"A">>, TRUE, FALSE), Pref(<<"a">>, TRUE, TRUE) >>,
       invalidCharReplacement |-> <<" ">>],
      [deviceProfiles |->
           << Profile(<<"m">>, "/other", << [k |-> <<"A">>, v |-> IGNORE] >>) >>,
       defaultLinkReplacements |->
           << [k |-> <<"A">>, v |-> <<"x", "/", "y">>], [k |-> <<"B">>, v |-> <<"z">>] >>,
       openInPreferences |-> << Pref(<<"A">>, FALSE, TRUE), Pref(<<"B">>, TRUE, TRUE) >>,
       invalidCharReplacement |-> <<" ">>],
      [deviceProfiles |->
           << Profile(<<"m">>, "/other", << [k |-> <<"A">>, v |-> IGNORE] >>),
              Profile(<<"p", "c">>, "/vault",
                      << [k |-> <<"B">>, v |-> IGNORE], [k |-> <<"D">>, v |-> <<"d">>] >>) >>,
       defaultLinkReplacements |->
           << [k |-> <<"D">>, v |-> <<"e">>], [k |-> <<"A">>, v |-> <<"x", "/", "y">>],
              [k |-> <<"B">>, v |-> <<"z">>] >>,
       openInPreferences |->
           << Pref(<<"D">>, TRUE, TRUE), Pref(<<"A">>, TRUE, TRUE), Pref(<<"B">>, TRUE, FALSE) >>,
       invalidCharReplacement |-> <<" ">>],
      [deviceProfiles |-> <<>>, defaultLinkReplacements |-> <<>>,
       openInPreferences |-> <<>>, invalidCharReplacement |-> <<" ">>],
      [deviceProfiles |-> <<>>,
       defaultLinkReplacements |->
           << [k |-> <<"A">>, v |-> <<"x", "/", "y">>], [k |-> <<"B">>, v |-> <<"z">>] >>,
       openInPreferences |-> << Pref(<<"A">>, TRUE, TRUE), Pref(<<"B">>, TRUE, TRUE) >>,
       invalidCharReplacement |-> <<"$", "&">>],
      [deviceProfiles |-> <<>>,
       defaultLinkReplacements |->
           << [k |-> <<"A">>, v |-> <<"B">>], [k |-> <<"B">>, v |-> <<"v">>] >>,
       openInPreferences |-> << Pref(<<"A">>, TRUE, TRUE), Pref(<<"B">>, TRUE, TRUE) >>,
       invalidCharReplacement |-> <<" ">>] }

\* After onload with saved settings.
InitLoaded ==
    /\ \E c \in Configs :
          /\ deviceProfiles = c.deviceProfiles
          /\ defaultLinkReplacements = c.defaultLinkReplacements
          /\ defaultValue = c.defaultLinkReplacements
          /\ openInPreferences = c.openInPreferences
          /\ invalidCharReplacement = c.invalidCharReplacement
    /\ hasPropertyError = FALSE
    /\ workspaceOpenLinkText = "patched"
    /\ event = [kind |-> "onload"]
    /\ hostCalls = <<>>
    /\ modal = NoModal
    /\ menu = <<>>
    /\ opened = <<>>

-----------------------------------------------------------------------------
(* The plugin's functions called one at a time                             *)

O == <<"$", "{">>
C == <<"}">>
OR == <<",", ",">>

\* The file a call resolves ${L:...} against: its sourcePath and the
\* workspace's active file.
Contexts ==
    { [sourcePath |-> "note.md", active |-> ""],
      [sourcePath |-> "bare.md", active |-> ""],
      [sourcePath |-> "img.png", active |-> ""],
      [sourcePath |-> "gone.md", active |-> ""],
      [sourcePath |-> "", active |-> "note.md"],
      [sourcePath |-> "", active |-> ""] }

\* n, ${A}, ${b}, ${c}, x${A}/${B}, ${L:q}, ${L:p}, ${L:n}, ${L:},
\* ${L:p}${L:q}${A}, ${L:b}, the nested ${${A}}, and without "${": $A, {A}
\* and $ {A}.
ResolveTexts ==
    { <<"n">>,
      O \o <<"A">> \o C,
      O \o <<"b">> \o C,
      O \o <<"c">> \o C,
      <<"x">> \o O \o <<"A">> \o C \o <<"/">> \o O \o <<"B">> \o C,
      O \o <<"L", ":", "q">> \o C,
      O \o <<"L", ":", "p">> \o C,
      O \o <<"L", ":", "n">> \o C,
      O \o <<"L", ":">> \o C,
      O \o <<"L", ":", "p">> \o C \o O \o <<"L", ":", "q">> \o C \o O \o <<"A">> \o C,
      O \o <<"L", ":", "b">> \o C,
      O \o O \o <<"A">> \o C \o C,
      <<"$", "A">>,
      <<"{", "A", "}">>,
      <<"$", " ", "{", "A", "}">> }

\* ${A,,B}${C,,D,,E}, ${A,,B}-${A,,B}, ${A,,B}/${L:p}, n${ A ,,${B}x},
\* ${A}, ${a,,L:q}, ${A,,B}${C,,D}${E,,a}, the unclosed ${A,,B, ${L:q,,A},
\* and with a separator inside a nested span ${x${A,,B}} and ${A,,x${B,,D}}.
ExpandTexts ==
    { O \o <<"A">> \o OR \o <<"B">> \o C \o O \o <<"C">> \o OR \o <<"D">> \o OR \o <<"E">> \o C,
      O \o <<"A">> \o OR \o <<"B">> \o C \o <<"-">> \o O \o <<"A">> \o OR \o <<"B">> \o C,
      O \o <<"A">> \o OR \o <<"B">> \o C \o <<"/">> \o O \o <<"L", ":", "p">> \o C,
      <<"n">> \o O \o <<" ", "A", " ">> \o OR \o O \o <<"B">> \o C \o <<"x">> \o C,
      O \o <<"A">> \o C,
      O \o <<"a">> \o OR \o <<"L", ":", "q">> \o C,
      O \o <<"A">> \o OR \o <<"B">> \o C \o O \o <<"C">> \o OR \o <<"D">> \o C
        \o O \o <<"E">> \o OR \o <<"a">> \o C,
      O \o <<"A">> \o OR \o <<"B">>,
      O \o <<"L", ":", "q">> \o OR \o <<"A">> \o C,
      O \o <<"x">> \o O \o <<"A">> \o OR \o <<"B">> \o C \o C,
      O \o <<"A">> \o OR \o <<"x">> \o O \o <<"B">> \o OR \o <<"D">> \o C \o C }

\* The most options of one alternation span written with bare words.
MaxOptions == 3

\* The bare words: two keys and a property reference.
Tokens == { <<"A">>, <<"b">>, <<"L", ":", "p">> }

RECURSIVE TokenLists(_)
TokenLists(n) ==
    IF n = 0 THEN { <<>> }
    ELSE {Append(l, t) : l \in TokenLists(n - 1), t \in Tokens}

\* ${o1,,o2,,...}
Bare(tokens) == O \o join(tokens, OR) \o C

\* ${${o1},,${o2},,...}
Explicit(tokens) == O \o join([i \in 1..Len(tokens) |-> O \o tokens[i] \o C], OR) \o C

OptionLists == UNION {TokenLists(n) : n \in 2..MaxOptions}

SugarTexts == {Bare(l) : l \in OptionLists}

ExpandContexts ==
    { [sourcePath |-> "note.md", active |-> ""],
      [sourcePath |-> "", active |-> ""] }

\* The longest key list handed to getMergedOpenInPreference.
MaxKeyList == 2

KeyNames == { <<"A">>, <<"a">>, <<"B">>, <<"b">>, <<"E">> }

RECURSIVE KeyLists(_)
KeyLists(n) ==
    IF n = 0 THEN { <<>> }
    ELSE KeyLists(n - 1)
           \cup {Append(l, k) : l \in {x \in KeyLists(n - 1) : Len(x) = n - 1}, k \in KeyNames}

Idle == event.kind \in {"onload", "return"}

Called(fn, args, result) ==
    /\ event' = [kind |-> "call", fn |-> fn, args |-> args, result |-> result]
    /\ UNCHANGED <<settingsVars, defaultValue, workspaceOpenLinkText, hostCalls, modal, menu, opened>>

CallReplacePatterns(text, ctx, isInternalLink) ==
    LET r == replacePatterns(text, ctx.sourcePath, isInternalLink, ctx.active)
    IN  /\ Idle
        /\ hasPropertyError' = r.hasPropertyError
        /\ Called("replacePatterns",
                  [text |-> text, ctx |-> ctx, isInternalLink |-> isInternalLink],
                  r.result)

CallGenerateOrPatternChoices(text, ctx, isInternalLink) ==
    /\ Idle
    /\ hasPropertyError' = errorAfterChoices(text, ctx.sourcePath, isInternalLink, ctx.active)
    /\ Called("generateOrPatternChoices",
              [text |-> text, ctx |-> ctx, isInternalLink |-> isInternalLink],
              generateOrPatternChoices(text, ctx.sourcePath, isInternalLink, ctx.active))

\* The texts the brace scan is run over besides the templates above:
\* ${A${B,,D}}x${E}, ${A ${B}, }${A}, ${{}}, $${A}${, ${} and ${A}}${B}.
ScanTexts ==
    { O \o <<"A">> \o O \o <<"B">> \o OR \o <<"D">> \o C \o C \o <<"x">> \o O \o <<"E">> \o C,
      O \o <<"A", " ">> \o O \o <<"B">> \o C,
      C \o O \o <<"A">> \o C,
      O \o <<"{", "}">> \o C,
      <<"$">> \o O \o <<"A">> \o C \o O,
      O \o C,
      O \o <<"A">> \o C \o C \o O \o <<"B">> \o C }

\* const matches = extractBalancedPatterns(text)
CallExtractBalancedPatterns(text) ==
    /\ Idle
    /\ UNCHANGED hasPropertyError
    /\ Called("extractBalancedPatterns", [text |-> text], extractBalancedPatterns(text))

CallGetActiveLinkReplacements ==
    /\ Idle
    /\ UNCHANGED hasPropertyError
    /\ Called("getActiveLinkReplacements", <<>>, getActiveLinkReplacements)

CallGetMergedOpenInPreference(keys) ==
    /\ Idle
    /\ UNCHANGED hasPropertyError
    /\ Called("getMergedOpenInPreference", [keys |-> keys], getMergedOpenInPreference(keys))

\* The call has returned and its result has been used.
Return ==
    /\ event.kind = "call"
    /\ event' = [kind |-> "return"]
    /\ UNCHANGED <<settingsVars, defaultValue, workspaceOpenLinkText, hasPropertyError, hostCalls, modal, menu, opened>>

NextCalls ==
    \/ \E t \in ResolveTexts, c \in Contexts, b \in BOOLEAN : CallReplacePatterns(t, c, b)
    \/ \E t \in ExpandTexts \cup SugarTexts, c \in ExpandContexts, b \in BOOLEAN :
          CallGenerateOrPatternChoices(t, c, b)
    \/ \E t \in ExpandTexts \cup ScanTexts : CallExtractBalancedPatterns(t)
    \/ CallGetActiveLinkReplacements
    \/ \E keys \in KeyLists(MaxKeyList) : CallGetMergedOpenInPreference(keys)
    \/ Return

SpecCalls == InitLoaded /\ [][NextCalls]_vars

-----------------------------------------------------------------------------
(* Links and addresses clicked with saved settings                         *)

\* ${A,,B}, ${A,,B}${B,,A}, ${a,,B}, ${A}, ${B,,D}/${L:p}, n, the unclosed
\* ${A,,B, and with a property note.md lacks ${A,,B}/${L:q} and ${L:q}.
ClickedLinks ==
    { O \o <<"A">> \o OR \o <<"B">> \o C,
      O \o <<"A">> \o OR \o <<"B">> \o C \o O \o <<"B">> \o OR \o <<"A">> \o C,
      O \o <<"a">> \o OR \o <<"B">> \o C,
      O \o <<"A">> \o C,
      O \o <<"B">> \o OR \o <<"D">> \o C \o <<"/">> \o O \o <<"L", ":", "p">> \o C,
      <<"n">>,
      O \o <<"A">> \o OR \o <<"B">>,
      O \o <<"A">> \o OR \o <<"B">> \o C \o <<"/">> \o O \o <<"L", ":", "q">> \o C,
      O \o <<"L", ":", "q">> \o C }

\* dummy://${A}${B}, h:${A,,B}, h:${A,,B}${B,,D}, the encoded %24%7BB%7D,
\* the malformed %zz${A}, h:n, h:${L:q}, h:${B,,D}${A} and
\* dummy://dummy://${A,,B}.
ClickedUrls ==
    { DUMMY \o O \o <<"A">> \o C \o O \o <<"B">> \o C,
      <<"h", ":">> \o O \o <<"A">> \o OR \o <<"B">> \o C,
      <<"h", ":">> \o O \o <<"A">> \o OR \o <<"B">> \o C \o O \o <<"B">> \o OR \o <<"D">> \o C,
      <<"%", "2", "4", "%", "7", "B", "B", "%", "7", "D">>,
      <<"%", "z", "z">> \o O \o <<"A">> \o C,
      <<"h", ":", "n">>,
      <<"h", ":">> \o O \o <<"L", ":", "q">> \o C,
      <<"h", ":">> \o O \o <<"B">> \o OR \o <<"D">> \o C \o O \o <<"A">> \o C,
      DUMMY \o DUMMY \o O \o <<"A">> \o OR \o <<"B">> \o C }

Source == [newLeaf |-> TRUE, openViewState |-> "source"]

Preview == [newLeaf |-> FALSE, openViewState |-> "preview"]

\* The clicks: every link from note.md, and two from elsewhere.
Clicks ==
    { [linktext |-> t, sourcePath |-> "note.md", active |-> "", opts |-> Source] :
          t \in ClickedLinks }
    \cup
    { [linktext |-> O \o <<"A">> \o OR \o <<"B">> \o C,
       sourcePath |-> "bare.md", active |-> "", opts |-> Preview],
      [linktext |-> O \o <<"B">> \o OR \o <<"D">> \o C \o <<"/">> \o O \o <<"L", ":", "p">> \o C,
       sourcePath |-> "", active |-> "", opts |-> Preview] }

NextLinks ==
    \/ \E c \in Clicks : OpenLinkText(c.linktext, c.sourcePath, c.opts, c.active)
    \/ \E i \in 1..(IF modal.open THEN Len(modal.choices) ELSE 0) : ModalChoose(i)
    \/ ModalClose
    \/ \E u \in ClickedUrls, w \in BOOLEAN : UrlMenu(u, w, "note.md")
    \/ \E i \in 1..Len(menu), e \in BOOLEAN : MenuClick(i, e)

SpecLinks == InitLoaded /\ [][NextLinks]_vars

-----------------------------------------------------------------------------
(* Properties of the expansion of OR patterns                              *)

IsCall(fn) == event.kind = "call" /\ event.fn = fn

\* k(i) * ... * k(N) for the option groups from number i on.
RECURSIVE SizeProduct(_, _)
SizeProduct(groups, i) ==
    IF i > Len(groups) THEN 1 ELSE Len(groups[i]) * SizeProduct(groups, i + 1)

\* The options of candidate number c when the candidates are counted with
\* the first span as the slowest digit.
CombinationAt(groups, c) ==
    [i \in 1..Len(groups) |->
        groups[i][(((c - 1) \div SizeProduct(groups, i + 1)) % Len(groups[i])) + 1]]

\* The text with each span replaced, at its own position, by the option of
\* the combination that belongs to it.
RECURSIVE SpansReplaced(_, _, _, _, _)
SpansReplaced(text, pos, orMatches, combination, n) ==
    IF n > Len(orMatches) THEN SubSeq(text, pos, Len(text))
    ELSE SubSeq(text, pos, orMatches[n].index)
           \o combination[n]
           \o SpansReplaced(text, orMatches[n].index + Len(orMatches[n].match) + 1,
                            orMatches, combination, n + 1)

\* C1: a template whose alternation spans have k1, ..., kN options expands to
\* exactly k1 * ... * kN candidates, and they come in the order in which the
\* first span's option changes slowest and the last span's fastest.
ChoicesAreTheCartesianProduct ==
    IsCall("generateOrPatternChoices") /\ orMatchesOf(event.args.text) # <<>> =>
        LET groups == allOptionGroups(orMatchesOf(event.args.text))
        IN  /\ Len(event.result) = SizeProduct(groups, 1)
            /\ \A c \in 1..Len(event.result) :
                  event.result[c].label = join(CombinationAt(groups, c), <<" ", "+", " ">>)

\* ${A,,B}${C,,D,,E} has expanded to 6 candidates, the second being A with D
\* and the fourth B with C.
SixChoicesInOrder ==
    /\ IsCall("generateOrPatternChoices")
    /\ event.args.text = O \o <<"A">> \o OR \o <<"B">> \o C
                           \o O \o <<"C">> \o OR \o <<"D">> \o OR \o <<"E">> \o C
    /\ Len(event.result) = 6
    /\ event.result[2].label = O \o <<"A">> \o C \o <<" ", "+", " ">> \o O \o <<"D">> \o C
    /\ event.result[4].label = O \o <<"B">> \o C \o <<" ", "+", " ">> \o O \o <<"C">> \o C

\* C2: in every candidate each span position carries the option chosen for
\* that position, also when two spans have the same text: the candidate's
\* url is the resolution of the template with every span replaced in place.
EachSpanCarriesItsOwnOption ==
    IsCall("generateOrPatternChoices") /\ orMatchesOf(event.args.text) # <<>> =>
        LET text == event.args.text
            orMatches == orMatchesOf(text)
            groups == allOptionGroups(orMatches)
        IN  \A c \in 1..Len(event.result) :
                event.result[c].url =
                    replacePatterns(
                        SpansReplaced(text, 1, orMatches, CombinationAt(groups, c), 1),
                        event.args.ctx.sourcePath, event.args.isInternalLink,
                        event.args.ctx.active).result

-----------------------------------------------------------------------------
(* Properties of the dictionary                                            *)

\* The spellings of a key the properties try.
Spellings(key) == {c \in KeyNames : toLowerCase(c) = toLowerCase(key)}

Placeholder(key) == O \o key \o C

\* C3: every key of the effective dictionary, written in any casing inside
\* ${...}, resolves to that key's value (sanitised for an internal link).
EveryCasingResolvesToItsValue ==
    \A i \in 1..Len(getActiveLinkReplacements) :
        \A c \in Spellings(getActiveLinkReplacements[i].k), isInternalLink \in BOOLEAN :
            replacePatterns(Placeholder(c), "note.md", isInternalLink, "").result =
                IF isInternalLink
                THEN replaceInvalidChars(getActiveLinkReplacements[i].v, invalidCharReplacement)
                ELSE getActiveLinkReplacements[i].v

Pairs(obj) == {<<obj[i].k, obj[i].v>> : i \in 1..Len(obj)}

\* C4: the effective dictionary holds exactly the current profile's overrides
\* whose value is not the sentinel, and the defaults whose key is not an
\* override key (exact case) and whose value is not the sentinel.
ActiveIsOverridesOverDefaults ==
    IsCall("getActiveLinkReplacements") =>
        LET overrides == IF CurrentProfileIndex = 0 THEN <<>>
                         ELSE deviceProfiles[CurrentProfileIndex].linkReplacements
        IN  /\ Pairs(event.result) =
                  {pr \in Pairs(overrides) : pr[2] # IGNORE}
                    \cup {pr \in Pairs(defaultLinkReplacements) :
                             /\ pr[2] # IGNORE
                             /\ \A o \in Pairs(overrides) : o[1] # pr[1]}
            /\ Cardinality(Pairs(event.result)) = Len(event.result)

\* The profile ignores A, overrides B and leaves the default C, typed as the
\* sentinel, alone: the effective dictionary is B with the override's value.
OverrideWinsAndSentinelsGo ==
    /\ IsCall("getActiveLinkReplacements")
    /\ Len(defaultLinkReplacements) = 3
    /\ CurrentProfileIndex = 1
    /\ event.result = << [k |-> <<"B">>, v |-> <<"o", ":", "p">>] >>

\* C5: a placeholder of an ignored key, in any casing, is left as written.
IgnoredKeyStaysVerbatim ==
    \A key \in KeyNames :
        isKeyIgnored(key) =>
            \A c \in Spellings(key), isInternalLink \in BOOLEAN :
                replacePatterns(Placeholder(c), "note.md", isInternalLink, "").result
                    = Placeholder(c)

-----------------------------------------------------------------------------
(* Properties of the handling of links and addresses                       *)

\* The positions of the candidates none of whose keys is ignored.
KeptPositions(choices) ==
    {i \in 1..Len(choices) :
        \A n \in 1..Len(choices[i].keys) : ~isKeyIgnored(choices[i].keys[n])}

\* list is choices restricted to the kept positions, in the original order.
IsKeptSubsequence(list, choices) ==
    LET kept == KeptPositions(choices)
    IN  /\ Len(list) = Cardinality(kept)
        /\ \A j \in 1..Len(list) :
              \E i \in kept : /\ Cardinality({m \in kept : m < i}) = j - 1
                              /\ list[j] = choices[i]

\* C6: the candidates that survive filtering are exactly the expanded
\* candidates none of whose keys is ignored on the current profile, in their
\* original order, for a clicked link and for a right-clicked address.
SurvivorsAreTheUnignoredInOrder ==
    /\ event.kind = "openLinkText" /\ event.hasOrPattern =>
          IsKeptSubsequence(event.filteredChoices,
              generateOrPatternChoices(event.linktext, event.sourcePath, TRUE, event.active))
    /\ event.kind = "urlMenu" /\ event.hasOrPattern =>
          IsKeptSubsequence(event.survivors,
              generateOrPatternChoices(event.decodedUrl, "", FALSE, event.active))

\* With A ignored and B overridden, ${A,,B} leaves the one candidate of B,
\* resolved to the override's value.
OnlyTheUnignoredOptionSurvives ==
    /\ event.kind = "openLinkText"
    /\ event.linktext = O \o <<"A">> \o OR \o <<"B">> \o C
    /\ isKeyIgnored(<<"A">>)
    /\ Len(event.filteredChoices) = 1
    /\ event.filteredChoices[1].keys = << <<"B">> >>
    /\ event.filteredChoices[1].url = <<"o", "_", "p">>

\* C7: for an internal link with an OR pattern, no surviving candidate means
\* a notice and no host call; one surviving candidate means one host call
\* with its resolved value and no modal; two or more mean the modal with
\* exactly the survivors and no host call until the user picks, and then the
\* one host call is made with the picked candidate's value.
OrLinkBranchesOnSurvivors ==
    /\ event.kind = "openLinkText" /\ event.hasOrPattern =>
          LET survivors == event.filteredChoices
          IN  /\ Len(survivors) = 0 =>
                    hostCalls = <<>> /\ ~modal.open /\ event.notice = "all ignored"
              /\ Len(survivors) = 1 =>
                    /\ hostCalls = << HostCall(survivors[1].url, event.sourcePath, event.opts) >>
                    /\ ~modal.open
              /\ Len(survivors) >= 2 =>
                    /\ hostCalls = <<>>
                    /\ modal.open
                    /\ modal.choices = survivors
    /\ event.kind = "modalChoose" =>
          /\ hostCalls = << HostCall(event.choices[event.picked].url,
                                     event.sourcePath, event.opts) >>
          /\ ~modal.open
    /\ event.kind = "modalClose" => hostCalls = <<>> /\ ~modal.open

\* The user picked the second of several candidates and the host was called
\* with that candidate's value only.
HostCalledWithThePick ==
    /\ event.kind = "modalChoose"
    /\ event.picked = 2
    /\ Len(event.choices) >= 2
    /\ Len(hostCalls) = 1
    /\ hostCalls[1].linktext = event.choices[2].url
    /\ hostCalls[1].linktext # event.choices[1].url

\* C8: every candidate that survives filtering gets at least one menu item,
\* whatever its keys' preferences and whether or not the webviewer is
\* available; without the webviewer the external item is always there.
EverySurvivorIsOffered ==
    event.kind = "urlMenu" =>
        \A j \in 1..Len(event.survivors) :
            /\ \E n \in 1..Len(menu) : menu[n].choice = j
            /\ ~event.hasWebviewerOption =>
                  \E n \in 1..Len(menu) : menu[n].choice = j /\ menu[n].kind = "external"

-----------------------------------------------------------------------------
(* Properties of the merged preference and of note properties              *)

\* The stored preference of a key: the first entry that equals it ignoring
\* case, both channels when there is none.
StoredPreference(key) ==
    LET hits == {i \in 1..Len(openInPreferences) :
                    toLowerCase(openInPreferences[i].k) = toLowerCase(key)}
        first == CHOOSE i \in hits : \A j \in hits : i <= j
    IN  IF hits = {} THEN [webviewer |-> TRUE, external |-> TRUE]
        ELSE [webviewer |-> openInPreferences[first].webviewer,
              external |-> openInPreferences[first].external]

\* C9: the merged preference is, per channel, the conjunction of the keys'
\* preferences; no keys give both channels; one more key never turns a
\* channel back on.
MergedIsTheConjunction ==
    IsCall("getMergedOpenInPreference") =>
        LET keys == event.args.keys
        IN  /\ event.result.webviewer = \A i \in 1..Len(keys) : StoredPreference(keys[i]).webviewer
            /\ event.result.external = \A i \in 1..Len(keys) : StoredPreference(keys[i]).external
            /\ keys = <<>> => event.result = [webviewer |-> TRUE, external |-> TRUE]
            /\ \A k \in KeyNames :
                  LET more == getMergedOpenInPreference(Append(keys, k))
                  IN  /\ more.webviewer => event.result.webviewer
                      /\ more.external => event.result.external

\* A allows the webviewer only and B the browser only: merged, neither.
MergedOfOppositesIsNeither ==
    /\ IsCall("getMergedOpenInPreference")
    /\ Len(event.args.keys) = 2
    /\ StoredPreference(event.args.keys[1]) = [webviewer |-> TRUE, external |-> FALSE]
    /\ StoredPreference(event.args.keys[2]) = [webviewer |-> FALSE, external |-> TRUE]
    /\ event.result = [webviewer |-> FALSE, external |-> FALSE]

\* The text is ${L:p} for some p without "}".
IsPropertyPlaceholder(text) ==
    /\ Len(text) >= 5
    /\ startsWith(text, O \o <<"L", ":">>)
    /\ FirstClose(text, 1) = Len(text)

\* C10: ${L:p} resolved against a markdown file with frontmatter that lacks
\* p (ignoring case) gives the empty string and raises the property error;
\* against a file without frontmatter, a file that is not markdown or no
\* file it stays as written and the error is not raised.
MissingPropertyVanishesAndFlags ==
    IsCall("replacePatterns") /\ IsPropertyPlaceholder(event.args.text) =>
        LET text == event.args.text
            p == SubSeq(text, 5, Len(text) - 1)
            file == ContextFile(event.args.ctx.sourcePath, event.args.ctx.active)
            markdown == file.kind = "TFile" /\ file.extension = "md"
        IN  /\ markdown /\ file.hasFrontmatter
               /\ (\A i \in 1..Len(file.frontmatter) :
                       toLowerCase(file.frontmatter[i].k) # toLowerCase(p))
               => event.result = <<>> /\ hasPropertyError
            /\ ~(markdown /\ file.hasFrontmatter)
               => event.result = text /\ ~hasPropertyError

\* ${L:q} against note.md, whose frontmatter has no q.
MissingPropertyOfNote ==
    /\ IsCall("replacePatterns")
    /\ event.args.text = O \o <<"L", ":", "q">> \o C
    /\ event.args.ctx.sourcePath = "note.md"
    /\ event.result = <<>>
    /\ hasPropertyError

-----------------------------------------------------------------------------
(* Properties of the property error                                        *)

\* The text has a ${L:p} whose p is missing from the frontmatter of the file,
\* a markdown file with frontmatter.
MissingPropertyIn(text, file) ==
    /\ file.kind = "TFile" /\ file.extension = "md" /\ file.hasFrontmatter
    /\ \E n \in 1..Len(matchAll(text)) :
          LET key == matchAll(text)[n].key
          IN  /\ startsWith(key, <<"L", ":">>)
              /\ \A i \in 1..Len(file.frontmatter) :
                    toLowerCase(file.frontmatter[i].k) # toLowerCase(substringFrom(key, 2))

\* The texts one top-level resolution of text resolves: text itself, or with
\* alternation spans each of its combinations.
CandidateTexts(text) ==
    IF orMatchesOf(text) = <<>> THEN {text}
    ELSE {processedTexts(text)[c] : c \in 1..Len(processedTexts(text))}

MissingPropertyDuring(text, sourcePath, active) ==
    \E t \in CandidateTexts(text) : MissingPropertyIn(t, ContextFile(sourcePath, active))

\* C11: an internal-link invocation that meets a ${L:property} missing from
\* existing frontmatter, with or without alternation, makes no host call; a
\* plain invocation without such an error makes its one host call.
MissingPropertyCancelsNavigation ==
    event.kind = "openLinkText" =>
        IF MissingPropertyDuring(event.linktext, event.sourcePath, event.active)
        THEN hostCalls = <<>>
        ELSE ~event.hasOrPattern => Len(hostCalls) = 1

\* C12: a right-clicked address whose resolution meets a missing property
\* gets no menu item.
MissingPropertyOffersNothing ==
    event.kind = "urlMenu"
      /\ MissingPropertyDuring(event.decodedUrl, "", event.active)
    => menu = <<>>

\* C13: after a call of replacePatterns or of generateOrPatternChoices the
\* property-error flag is true exactly when a property was missing during
\* that call, whatever the calls before it left.
FlagTellsOfThisCall ==
    IsCall("replacePatterns") \/ IsCall("generateOrPatternChoices") =>
        hasPropertyError =
            MissingPropertyDuring(event.args.text, event.args.ctx.sourcePath,
                                  event.args.ctx.active)

-----------------------------------------------------------------------------
(* Properties of replacePatterns                                           *)

\* The value with every "/", "\" and ":" replaced by the configured string.
Sanitised(value) ==
    IF value = <<>> THEN <<>>
    ELSE LET parts == [i \in 1..Len(value) |->
                          IF value[i] \in {"/", "\\", ":"}
                          THEN invalidCharReplacement ELSE <<value[i]>>]
         IN  join(parts, <<>>)

\* The placeholder with this key is given a value: a property the file has,
\* or a key of the effective dictionary.
Substituted(key, file) ==
    IF startsWith(key, <<"L", ":">>)
    THEN /\ file.kind = "TFile" /\ file.extension = "md" /\ file.hasFrontmatter
         /\ \E i \in 1..Len(file.frontmatter) :
               toLowerCase(file.frontmatter[i].k) = toLowerCase(substringFrom(key, 2))
    ELSE \E i \in 1..Len(getActiveLinkReplacements) :
               toLowerCase(getActiveLinkReplacements[i].k) = toLowerCase(key)

\* The text from position i on with the placeholders ms resolved: a value put
\* in place of a placeholder is sanitised for an internal link and unchanged
\* for an external one, and everything else is as the external resolution.
RECURSIVE ResolvedWith(_, _, _, _, _)
ResolvedWith(text, i, ms, file, isInternalLink) ==
    IF ms = <<>> THEN SubSeq(text, i, Len(text))
    ELSE LET m == Head(ms)
             raw == replaceMatch(m.match, m.key, file, FALSE).s
         IN  SubSeq(text, i, m.from - 1)
               \o (IF isInternalLink /\ Substituted(m.key, file) THEN Sanitised(raw) ELSE raw)
               \o ResolvedWith(text, m.to + 1, Tail(ms), file, isInternalLink)

\* C14: for an internal link every "/", "\" and ":" of a substituted value
\* becomes the configured replacement string and the text outside the
\* placeholders is untouched; for an external link values go in unchanged.
InvalidCharactersAreReplaced ==
    IsCall("replacePatterns") =>
        event.result =
            ResolvedWith(event.args.text, 1, matchAll(event.args.text),
                         ContextFile(event.args.ctx.sourcePath, event.args.ctx.active),
                         event.args.isInternalLink)

-----------------------------------------------------------------------------
(* Properties of the options of a span                                     *)

\* C15: a span written with bare words expands to the same candidates, in
\* the same order, with the same resolved values and keys, as the span with
\* every word written as a placeholder.
BareWordsAreSugar ==
    IsCall("generateOrPatternChoices") =>
        \A l \in OptionLists :
            event.args.text = Bare(l) =>
                event.result =
                    generateOrPatternChoices(Explicit(l), event.args.ctx.sourcePath,
                                             event.args.isInternalLink,
                                             event.args.ctx.active)

\* ${A,,b} has expanded to the values of A and B, as ${${A},,${b}} does.
BareKeysResolved ==
    /\ IsCall("generateOrPatternChoices")
    /\ event.args.text = Bare(<< <<"A">>, <<"b">> >>)
    /\ event.args.isInternalLink
    /\ Len(event.result) = 2
    /\ event.result[1].url = <<"x", " ", "y">>
    /\ event.result[2].url = <<"z">>
    /\ event.result[2].keys = << <<"b">> >>

-----------------------------------------------------------------------------
(* Properties of the menu of an address                                    *)

\* C16: no menu item is offered for a candidate whose text refers to a key
\* ignored on the current profile, in any casing, wherever in the address
\* the reference is: every item is the resolution of a candidate text none
\* of whose keys is ignored.
NoItemForAnIgnoredKey ==
    event.kind = "urlMenu" =>
        \A n \in 1..Len(menu) :
            \E t \in CandidateTexts(event.decodedUrl) :
                /\ replacePatterns(t, "", FALSE, event.active).result = menu[n].url
                /\ \A i \in 1..Len(extractKeysFromPattern(t)) :
                      ~isKeyIgnored(extractKeysFromPattern(t)[i])

-----------------------------------------------------------------------------
(* The settings editor on its own                                          *)

\* What is typed into the add row: two good entries, and keys that are
\* blank or hold ":" or ",".
EditorEntries ==
    { [k |-> <<"A">>, v |-> <<"x", "/", "y">>],
      [k |-> <<"B">>, v |-> <<"z">>],
      [k |-> <<" ">>, v |-> <<"z">>],
      [k |-> <<"c", ":">>, v |-> <<"z">>],
      [k |-> <<"c", ",", "d">>, v |-> <<"z">>] }

\* What is typed over the key of a row: a new key, the key of another row
\* in another casing, nothing, and keys that hold ":" or ",".
RenameInputs ==
    { <<"R">>, <<" ", "b">>, <<>>, <<"L", ":", "p">>, <<",">> }

NextEditor ==
    \/ \E e \in EditorEntries : AddKey(e.k, e.v)
    \/ \E k \in AllKeys, n \in RenameInputs : RenameKey(k, n)
    \/ \E n \in NameInputs : CreateProfile(n)
    \/ \E k \in AllKeys : AddOverride(k)
    \/ \E k \in AllKeys : TogglePreference(k, "external")

SpecEditor == Init /\ [][NextEditor]_vars

WellFormed(key) == key # <<>> /\ ~includes(key, <<":">>) /\ ~includes(key, <<",">>)

\* C17: whatever keys are added and renamed, no default key is empty or
\* holds ":" or ","; and an edit that is rejected with a notice leaves the
\* dictionary, the overrides and the preferences as they were.
KeysStayWellFormed ==
    /\ [](\A k \in AllKeys : WellFormed(k))
    /\ [][event'.kind = "edit" /\ event'.notice # ""
            => UNCHANGED <<defaultLinkReplacements, deviceProfiles, openInPreferences>>]_vars

\* A key has been renamed to R, and then a key with ":" was turned down.
RenamedThenRejected ==
    /\ HasKey(defaultLinkReplacements, <<"R">>)
    /\ HasKey(openInPreferences, <<"R">>)
    /\ event.kind = "edit"
    /\ event.notice = "Key cannot contain ':'"

-----------------------------------------------------------------------------
(* Properties of text that resolves to itself                              *)

\* C18: a text without "${" comes back from replacePatterns unchanged with
\* the property-error flag down, and so does a placeholder whose key is not
\* in the effective dictionary.
UnresolvableTextIsEchoed ==
    IsCall("replacePatterns") =>
        /\ ~includes(event.args.text, O)
              => event.result = event.args.text /\ ~hasPropertyError
        /\ \A key \in KeyNames \cup { <<"c">> } :
              /\ event.args.text = Placeholder(key)
              /\ \A i \in 1..Len(getActiveLinkReplacements) :
                    toLowerCase(getActiveLinkReplacements[i].k) # toLowerCase(key)
              => event.result = event.args.text /\ ~hasPropertyError

\* ${b} resolved with a dictionary that has no key b: echoed.
UnknownKeyEchoed ==
    /\ IsCall("replacePatterns")
    /\ event.args.text = Placeholder(<<"b">>)
    /\ defaultLinkReplacements # <<>>
    /\ event.result = event.args.text
    /\ ~hasPropertyError

-----------------------------------------------------------------------------
(* Properties of the menu items' click handlers                            *)

\* C19: the url a menu item hands to window.open or shell.openExternal is
\* the resolved url of its candidate with one leading "dummy://" removed
\* when it has one, and that url unchanged when it has none.
MenuOpensCandidateWithoutOneDummy ==
    event.kind = "menuClick" =>
        /\ Len(opened) = 1
        /\ opened[1].item.choice \in 1..Len(event.from.survivors)
        /\ LET candidate == event.from.survivors[opened[1].item.choice].url
           IN  opened[1].url =
                  IF startsWith(candidate, DUMMY)
                  THEN SubSeq(candidate, Len(DUMMY) + 1, Len(candidate))
                  ELSE candidate

\* A candidate of dummy://dummy://${A,,B} opened through the shell: the
\* second prefix is still there.
OneDummyRemoved ==
    /\ event.kind = "menuClick"
    /\ opened[1].via = "shell.openExternal"
    /\ startsWith(opened[1].item.url, DUMMY \o DUMMY)
    /\ startsWith(opened[1].url, DUMMY)
    /\ Len(opened[1].url) = Len(opened[1].item.url) - Len(DUMMY)

-----------------------------------------------------------------------------
(* Properties of the detection of alternation spans                        *)

\* C20: hasOrPattern is true of a text exactly when the balanced-brace scan
\* of generateOrPatternChoices emits a span whose content has ",,"; a "${"
\* that is never closed does not make it true.
HasOrPatternIffASpanIsEmitted ==
    /\ event.kind = "openLinkText"
          => (event.hasOrPattern <=> orMatchesOf(event.linktext) # <<>>)
    /\ event.kind = "urlMenu"
          => (event.hasOrPattern <=> orMatchesOf(event.decodedUrl) # <<>>)

-----------------------------------------------------------------------------
(* Properties of nested placeholders                                       *)

\* C21: a placeholder whose content is itself a placeholder is resolved
\* inside-out: ${${K}} resolves to what the placeholder of the resolved ${K}
\* resolves to.
NestedIsResolvedInsideOut ==
    IsCall("replacePatterns") =>
        \A key \in KeyNames :
            event.args.text = O \o Placeholder(key) \o C =>
                LET inner == replacePatterns(Placeholder(key), event.args.ctx.sourcePath,
                                             event.args.isInternalLink,
                                             event.args.ctx.active).result
                IN  event.result =
                        replacePatterns(O \o inner \o C, event.args.ctx.sourcePath,
                                        event.args.isInternalLink,
                                        event.args.ctx.active).result

\* The pieces of a span's content between the ",," that stand outside every
\* nested brace pair; piece is the piece being read, depth the braces open.
RECURSIVE TopLevelOptionsFrom(_, _, _, _)
TopLevelOptionsFrom(content, i, depth, piece) ==
    IF i > Len(content) THEN << piece >>
    ELSE IF depth = 0 /\ i + 1 <= Len(content) /\ content[i] = "," /\ content[i + 1] = ","
         THEN << piece >> \o TopLevelOptionsFrom(content, i + 2, 0, <<>>)
    ELSE IF content[i] = "{"
         THEN TopLevelOptionsFrom(content, i + 1, depth + 1, Append(piece, content[i]))
    ELSE IF content[i] = "}" /\ depth > 0
         THEN TopLevelOptionsFrom(content, i + 1, depth - 1, Append(piece, content[i]))
    ELSE TopLevelOptionsFrom(content, i + 1, depth, Append(piece, content[i]))

TopLevelOptions(content) == TopLevelOptionsFrom(content, 1, 0, <<>>)

\* C22: only the ",," at the top level of a span's content make it an
\* alternation span and split it: a text none of whose spans has a top-level
\* ",," gives the single candidate "Open", and any other text gives as many
\* candidates as the product of its spans' top-level option counts.
OnlyTopLevelSeparatorsSplit ==
    IsCall("generateOrPatternChoices") =>
        LET spans == SelectSeq(extractBalancedPatterns(event.args.text),
                               LAMBDA m : Len(TopLevelOptions(m.content)) > 1)
            groups == [g \in 1..Len(spans) |-> TopLevelOptions(spans[g].content)]
        IN  IF spans = <<>>
            THEN /\ Len(event.result) = 1
                 /\ event.result[1].label = <<"O", "p", "e", "n">>
            ELSE Len(event.result) = SizeProduct(groups, 1)

-----------------------------------------------------------------------------
(* Properties of the balanced-brace scan                                   *)

\* The "{" less the "}" among the characters from..to of the text.
RECURSIVE BraceDepth(_, _, _)
BraceDepth(text, from, to) ==
    IF from > to THEN 0
    ELSE BraceDepth(text, from, to - 1)
           + (IF text[to] = "{" THEN 1 ELSE IF text[to] = "}" THEN -1 ELSE 0)

\* The first and last position of an emitted span.
SpanStart(m) == m.index + 1

SpanEnd(m) == m.index + Len(m.match)

\* C23: extractBalancedPatterns emits its spans in strictly increasing start
\* order without overlap; each match runs from a "${" to the "}" that brings
\* the brace depth back to 0 and its content is the match without the outer
\* "${" and "}"; a "${" inside a span is not emitted separately, and one whose
\* depth never returns to 0 is not emitted.
SpansAreTheBalancedTopLevelSpans ==
    IsCall("extractBalancedPatterns") =>
        LET text == event.args.text
            spans == event.result
            outside == { i \in 1..Len(text) :
                            /\ OpensAt(text, i)
                            /\ \A n \in 1..Len(spans) :
                                  i < SpanStart(spans[n]) \/ i > SpanEnd(spans[n]) }
        IN  /\ \A n \in 1..Len(spans) :
                  LET m == spans[n]
                  IN  /\ SpanEnd(m) <= Len(text)
                      /\ m.match = SubSeq(text, SpanStart(m), SpanEnd(m))
                      /\ OpensAt(text, SpanStart(m))
                      /\ BraceDepth(text, SpanStart(m) + 1, SpanEnd(m)) = 0
                      /\ \A j \in (SpanStart(m) + 1)..(SpanEnd(m) - 1) :
                            BraceDepth(text, SpanStart(m) + 1, j) > 0
                      /\ m.content = SubSeq(text, SpanStart(m) + 2, SpanEnd(m) - 1)
                      /\ n < Len(spans) => SpanEnd(m) < SpanStart(spans[n + 1])
            /\ \A i \in outside :
                  \E u \in outside :
                      /\ u <= i
                      /\ \A n \in 1..Len(spans) : u > SpanEnd(spans[n])
                      /\ \A j \in (u + 1)..Len(text) : BraceDepth(text, u + 1, j) > 0

\* ${A${B,,D}}x${E} scanned: two spans, the nested one inside the first.
NestedSpanInsideItsParent ==
    /\ IsCall("extractBalancedPatterns")
    /\ Len(event.result) = 2
    /\ event.result[1].content = <<"A">> \o O \o <<"B">> \o OR \o <<"D">> \o C
    /\ event.result[2].match = O \o <<"E">> \o C
    /\ event.result[2].index = 12

-----------------------------------------------------------------------------
(* Properties of a candidate's keys                                        *)

\* The key an option refers to: K when the option is ${K} with no brace and
\* no "$" inside K and K does not start with "L:", and none otherwise.
KeyReferredTo(option) ==
    LET inner == SubSeq(option, 3, Len(option) - 1)
    IN  IF /\ Len(option) > 3
           /\ startsWith(option, O)
           /\ option[Len(option)] = "}"
           /\ \A i \in 1..Len(inner) : inner[i] \notin {"$", "{", "}"}
           /\ ~startsWith(inner, <<"L", ":">>)
        THEN { inner }
        ELSE {}

\* C24: the keys of a candidate are exactly the keys K whose placeholder
\* ${K} is, as a whole, one of the candidate's chosen options; an option that
\* mixes a placeholder with literal text, or that is a property reference,
\* contributes no key.
KeysAreTheWholeOptionKeys ==
    IsCall("generateOrPatternChoices") /\ orMatchesOf(event.args.text) # <<>> =>
        LET groups == allOptionGroups(orMatchesOf(event.args.text))
        IN  \A c \in 1..Len(event.result) :
                { event.result[c].keys[i] : i \in 1..Len(event.result[c].keys) }
                    = UNION { KeyReferredTo(CombinationAt(groups, c)[g]) :
                                g \in 1..Len(groups) }

-----------------------------------------------------------------------------
(* Properties of the preference toggles                                    *)

\* Clicks on the toggle buttons of the rows of saved settings.
NextToggles ==
    \E k \in AllKeys, f \in {"webviewer", "external"} : TogglePreference(k, f)

SpecToggles == InitLoaded /\ [][NextToggles]_vars

\* C25: from preferences with a channel enabled for every key, every click
\* on a toggle leaves every stored preference with webviewer or external
\* enabled, and a click on the only enabled channel of a key changes nothing.
OneChannelStaysEnabled ==
    /\ [](\A i \in 1..Len(openInPreferences) :
              openInPreferences[i].webviewer \/ openInPreferences[i].external)
    /\ [][\A k \in AllKeys, f \in {"webviewer", "external"} :
              /\ Get(openInPreferences, k)[f]
              /\ ~Get(openInPreferences, k)[IF f = "webviewer" THEN "external" ELSE "webviewer"]
              /\ TogglePreference(k, f)
              => UNCHANGED settingsVars]_vars

\* A click on the only enabled channel was refused after B's external
\* channel had been switched off.
LastChannelRefused ==
    /\ event.kind = "edit"
    /\ event.notice = "At least one option must be enabled"
    /\ HasKey(openInPreferences, <<"B">>)
    /\ Get(openInPreferences, <<"B">>).webviewer
    /\ ~Get(openInPreferences, <<"B">>).external
    /\ deviceProfiles = <<>>

-----------------------------------------------------------------------------
(* Properties of the value inputs of one rendering                         *)

\* What is typed into a default-value input: x/y, z and nothing.
ValueInputs == { <<"x", "/", "y">>, <<"z">>, <<>> }

\* Blurs of the default-value inputs of the rows drawn for saved settings.
NextValues ==
    \E k \in AllKeys, v \in ValueInputs : ValueBlur(k, v)

SpecValues == InitLoaded /\ [][NextValues]_vars

\* C26: after a blur of a key's default-value input, the stored default
\* value of the key is the text the input holds.
StoredValueIsTheLastEntered ==
    event.kind = "valueBlur" =>
        Get(defaultLinkReplacements, event.key).v = event.newValue

-----------------------------------------------------------------------------
(* Properties of the list of device profiles                               *)

\* What is typed into the name and path inputs of the profile list.
ProfileNames == { <<"p", "c">>, <<"m">>, <<" ">> }

VaultPaths == { "/vault", "/other", "/nas", "" }

NextProfiles ==
    \/ \E n \in ProfileNames : CreateProfile(n)
    \/ \E n \in ProfileNames, path \in VaultPaths : AddProfile(n, path)
    \/ \E p \in 1..Len(deviceProfiles), n \in ProfileNames : EditProfileName(p, n)
    \/ \E p \in 1..Len(deviceProfiles), path \in VaultPaths : EditVaultPath(p, path)
    \/ \E p \in 1..Len(deviceProfiles) : DeleteProfile(p)

SpecProfiles == Init /\ [][NextProfiles]_vars

\* C27: no two device profiles have the same vaultPath.
VaultPathsAreUnique ==
    \A i, j \in 1..Len(deviceProfiles) :
        i # j => deviceProfiles[i].vaultPath # deviceProfiles[j].vaultPath

-----------------------------------------------------------------------------
(* Properties of the dictionary's keys                                     *)

NextDictionary ==
    \/ \E e \in NewEntries : AddKey(e.k, e.v)
    \/ \E k \in AllKeys, n \in RenameInputs \cup { <<"a">> } : RenameKey(k, n)
    \/ \E k \in AllKeys : DeleteKey(k)

SpecDictionary == Init /\ [][NextDictionary]_vars

\* C28: no two keys of the default dictionary are equal when compared
\* case-insensitively.
KeysDifferIgnoringCase ==
    \A i, j \in 1..Len(defaultLinkReplacements) :
        i # j => toLowerCase(defaultLinkReplacements[i].k)
                    # toLowerCase(defaultLinkReplacements[j].k)

-----------------------------------------------------------------------------
(* Properties of the keys of overrides and preferences                     *)

\* What the add row and the key inputs are given: the keys A and a, and the
\* name R.
SettingsEntries ==
    { [k |-> <<"A">>, v |-> <<"x", "/", "y">>],
      [k |-> <<"a">>, v |-> <<"w">>] }

SettingsRenames == { <<"R">> }

NextSettings ==
    \/ \E e \in SettingsEntries : AddKey(e.k, e.v)
    \/ \E k \in AllKeys, n \in SettingsRenames : RenameKey(k, n)
    \/ \E k \in AllKeys : DeleteKey(k)
    \/ \E k \in AllKeys : AddOverride(k)
    \/ \E k \in AllKeys, p, q \in 1..Len(deviceProfiles) : MoveOverride(p, k, q)
    \/ \E k \in AllKeys, p \in 1..Len(deviceProfiles) : DeleteOverride(p, k)
    \/ \E k \in AllKeys, p \in 1..Len(deviceProfiles) : ToggleIgnored(p, k)
    \/ \E n \in NameInputs, path \in {"/vault", "/other"} : AddProfile(n, path)
    \/ \E p \in 1..Len(deviceProfiles) : DeleteProfile(p)

SpecSettings == Init /\ [][NextSettings]_vars

\* The step has moved the entries of key to newKey and kept all others.
Carried(key, newKey) ==
    /\ ~HasKey(defaultLinkReplacements', key)
    /\ HasKey(defaultLinkReplacements', newKey)
    /\ Get(defaultLinkReplacements', newKey).v = Get(defaultLinkReplacements, key).v
    /\ HasKey(openInPreferences, key) =>
          /\ ~HasKey(openInPreferences', key)
          /\ HasKey(openInPreferences', newKey)
          /\ Get(openInPreferences', newKey) = [Get(openInPreferences, key) EXCEPT !.k = newKey]
    /\ Len(deviceProfiles') = Len(deviceProfiles)
    /\ \A p \in 1..Len(deviceProfiles) :
          /\ deviceProfiles'[p].profileName = deviceProfiles[p].profileName
          /\ deviceProfiles'[p].vaultPath = deviceProfiles[p].vaultPath
          /\ ~HasKey(deviceProfiles'[p].linkReplacements, key)
          /\ IF HasKey(deviceProfiles[p].linkReplacements, key)
             THEN /\ HasKey(deviceProfiles'[p].linkReplacements, newKey)
                  /\ Get(deviceProfiles'[p].linkReplacements, newKey).v
                        = Get(deviceProfiles[p].linkReplacements, key).v
             ELSE ~HasKey(deviceProfiles'[p].linkReplacements, newKey)
    /\ \A other \in AllKeys \ {key} :
          /\ HasKey(defaultLinkReplacements', other)
          /\ Get(defaultLinkReplacements', other) = Get(defaultLinkReplacements, other)
          /\ HasKey(openInPreferences', other) = HasKey(openInPreferences, other)
          /\ HasKey(openInPreferences, other) =>
                Get(openInPreferences', other) = Get(openInPreferences, other)
          /\ \A p \in 1..Len(deviceProfiles) :
                /\ HasKey(deviceProfiles'[p].linkReplacements, other)
                      = HasKey(deviceProfiles[p].linkReplacements, other)
                /\ HasKey(deviceProfiles[p].linkReplacements, other) =>
                      Get(deviceProfiles'[p].linkReplacements, other)
                          = Get(deviceProfiles[p].linkReplacements, other)

\* C29: every key of every profile's overrides and every key of the
\* preference table is, in its exact case, a key of the default dictionary;
\* a rename carries the key's default value, all its overrides and its
\* preference to the new name and leaves every other key's entries as they
\* were.
OverridesAndPreferencesFollowTheKeys ==
    /\ [](/\ \A p \in 1..Len(deviceProfiles) :
                \A i \in 1..Len(deviceProfiles[p].linkReplacements) :
                    HasKey(defaultLinkReplacements, deviceProfiles[p].linkReplacements[i].k)
          /\ \A i \in 1..Len(openInPreferences) :
                HasKey(defaultLinkReplacements, openInPreferences[i].k))
    /\ [][\A k \in AllKeys, n \in SettingsRenames :
              RenameKey(k, n) /\ trim(n) # k /\ event'.notice = ""
                  => Carried(k, trim(n))]_vars

\* The key A was renamed to R while two profiles had an override for it, one
\* of them the sentinel.
RenamedWithItsOverrides ==
    /\ HasKey(defaultLinkReplacements, <<"R">>)
    /\ Get(defaultLinkReplacements, <<"R">>).v = <<"x", "/", "y">>
    /\ HasKey(openInPreferences, <<"R">>)
    /\ Len(deviceProfiles) = 2
    /\ HasKey(deviceProfiles[1].linkReplacements, <<"R">>)
    /\ HasKey(deviceProfiles[2].linkReplacements, <<"R">>)
    /\ Get(deviceProfiles[2].linkReplacements, <<"R">>).v = IGNORE

-----------------------------------------------------------------------------
(* Properties of the openLinkText patch                                    *)

NextPatch ==
    \/ \E c \in Clicks : WorkspaceOpenLinkText(c.linktext, c.sourcePath, c.opts, c.active)
    \/ \E i \in 1..(IF modal.open THEN Len(modal.choices) ELSE 0) : ModalChoose(i)
    \/ ModalClose
    \/ Unload

SpecPatch == InitLoaded /\ [][NextPatch]_vars

\* The call has the source path, the newLeaf and the openViewState given.
AsReceived(call, sourcePath, opts) ==
    /\ call.sourcePath = sourcePath
    /\ call.newLeaf = opts.newLeaf
    /\ call.openViewState = opts.openViewState

\* C30: every call of the patched openLinkText to the host's original passes
\* sourcePath, newLeaf and openViewState as the invocation received them, the
\* original is called at most once for an invocation (directly, or when an
\* option of its modal is picked), and after the plugin is unloaded
\* workspace.openLinkText is the original again.
PatchPassesTheCallOn ==
    /\ [](event.kind = "openLinkText" =>
            /\ Len(hostCalls) + (IF modal.open THEN 1 ELSE 0) <= 1
            /\ \A n \in 1..Len(hostCalls) :
                  AsReceived(hostCalls[n], event.sourcePath, event.opts)
            /\ modal.open =>
                  modal.sourcePath = event.sourcePath /\ modal.opts = event.opts)
    /\ [][modal.open /\ modal'.open => modal' = modal]_vars
    /\ [][event'.kind = "modalChoose" =>
            /\ modal.open
            /\ ~modal'.open
            /\ Len(hostCalls') = 1
            /\ AsReceived(hostCalls'[1], modal.sourcePath, modal.opts)]_vars
    /\ [](event.kind = "onunload" => workspaceOpenLinkText = "original")
    /\ [][workspaceOpenLinkText = "original" => workspaceOpenLinkText' = "original"]_vars
    /\ [](event.kind = "originalOpenLinkText" =>
            hostCalls = << [linktext |-> event.linktext, sourcePath |-> event.sourcePath,
                            newLeaf |-> event.opts.newLeaf,
                            openViewState |-> event.opts.openViewState] >>)

\* A link opened in a new leaf showed its modal, the plugin was unloaded, and
\* the option picked then reached the original with newLeaf still set.
PickedAfterUnload ==
    /\ event.kind = "modalChoose"
    /\ workspaceOpenLinkText = "original"
    /\ Len(hostCalls) = 1
    /\ hostCalls[1].newLeaf
    /\ hostCalls[1].sourcePath = "note.md"

====
